---- MODULE Spec2Model ----
(***************************************************************************)
(* SlackCompose: the event router between Slack (slash commands, emoji     *)
(* reactions, block actions), Poppit (command execution) and SlackLiner    *)
(* (chat output), all connected through Redis pub/sub channels and lists.  *)
(*                                                                         *)
(* Strings the code only compares or copies are TLA+ strings.  Strings the *)
(* code takes apart (the slash command's text, hence every project name)   *)
(* are sequences of one-character strings.  JSON objects are functions     *)
(* from the keys that are present to their values.                         *)
(***************************************************************************)
EXTENDS Integers, Sequences, FiniteSets, TLC

VARIABLES
    lists,      \* Redis: list name -> the sequence of values RPush'ed to it
    handled,    \* observation: the message the last listener step received,
                \* and the RPush and GetMessage calls its handler made
    before,     \* observation: `lists` as it was when that message arrived
    nHandled,   \* number of messages received so far
    config,     \* the Service's configuration, as LoadConfig returned it
    process     \* the process: its phase (starting, running, exited), the
                \* environment it was started in, and (observation) how often
                \* it was restarted and how many requests the execution list
                \* held at its last start

vars == <<lists, handled, before, nHandled, config, process>>

----------------------------------------------------------------------------
(* Bounds of the model *)

\* messages delivered on the subscribed channels in one behaviour
MaxEvents == 2
\* length of a slash command's text, in characters
MaxTextLen == 3
\* actions in one block-action message
MaxActions == 2
\* the largest configured line limit
MaxLineLimit == 12
\* restarts of the service in one behaviour
MaxRestarts == 1

----------------------------------------------------------------------------
(* Constants of the program *)

DefaultGitBranch == "refs/heads/main"
DefaultTTLSeconds == 86400

ActionDockerUp == "docker_up"
ActionDockerDown == "docker_down"
ActionDockerRestart == "docker_restart"
ActionDockerPS == "docker_ps"
ActionDockerLogs == "docker_logs"
BlockIDProjectBlock == "project_block"
ActionIDSlackCompose == "SlackCompose"

EmojiUpArrow == "arrow_up"
EmojiDownArrow == "arrow_down"
EmojiArrowsCounterClockwise == "arrows_counterclockwise"
EmojiPageFacingUp == "page_facing_up"

\* mutant: the emoji are named as the README names them
emojiToCommand_Readme ==
    ("up_arrow" :> "docker compose up -d") @@
    ("down_arrow" :> "docker compose down") @@
    (EmojiArrowsCounterClockwise :> "docker compose restart") @@
    (EmojiPageFacingUp :> "docker compose logs")

\* the emoji reactions and the docker compose commands they stand for
emojiToCommand ==
    (EmojiUpArrow :> "docker compose up -d") @@
    (EmojiDownArrow :> "docker compose down") @@
    (EmojiArrowsCounterClockwise :> "docker compose restart") @@
    (EmojiPageFacingUp :> "docker compose logs")

\* the button action IDs and the docker compose commands they stand for
actionIDToCommand ==
    (ActionDockerUp :> "docker compose up -d") @@
    (ActionDockerDown :> "docker compose down") @@
    (ActionDockerRestart :> "docker compose restart") @@
    (ActionDockerPS :> "docker compose ps") @@
    (ActionDockerLogs :> "docker compose logs")

(* Configuration (LoadConfig's defaults) *)
PoppitListName == "poppit:notifications"
SlackLinerListName == "slack_messages"
SlackChannel == "#slack-compose"

\* the line limit in the environment the service specifications start in
ConfiguredLineLimit == 100

\* the records of the project configuration file
ProjectRecords ==
    <<[Name |-> <<"a">>, WorkingDir |-> "/srv/a"],
      [Name |-> <<"A", "a">>, WorkingDir |-> "/srv/Aa"]>>

\* the environment of a start: the project configuration file (missing,
\* unreadable, not a JSON list of records, or a list of records), the Slack
\* token, whether Redis answers the ping, and the configured line limit
Environment(file, token, redisUp, lineLimit) ==
    [projectFile |-> file, SlackToken |-> token, redisUp |-> redisUp,
     lineLimit |-> lineLimit]

ProjectFile(records) == [status |-> "ok", projects |-> records]
MissingFile == [status |-> "missing"]
UnreadableFile == [status |-> "unreadable"]
MalformedFile == [status |-> "malformed"]

\* the environment the service specifications start in
DefaultEnvironment ==
    Environment(ProjectFile(ProjectRecords), "xoxb-token", TRUE, ConfiguredLineLimit)

\* the loop c.Projects[p.Name] = p: a later record replaces an earlier one of
\* the same name
RECURSIVE ProjectMap(_)
ProjectMap(records) ==
    IF records = <<>> THEN <<>>
    ELSE LET n == Len(records) IN
         (records[n].Name :> records[n]) @@ ProjectMap(SubSeq(records, 1, n - 1))

\* mutant: a missing project file is an error like an unreadable one
loadProjectConfig_MissingIsFatal(file) ==
    IF file.status = "ok"
    THEN [err |-> FALSE, Projects |-> ProjectMap(file.projects)]
    ELSE [err |-> TRUE]

loadProjectConfig(file) ==
    IF file.status = "missing" THEN [err |-> FALSE, Projects |-> <<>>]
    ELSE IF file.status = "unreadable" THEN [err |-> TRUE]
    ELSE IF file.status = "malformed" THEN [err |-> TRUE]
    ELSE [err |-> FALSE, Projects |-> ProjectMap(file.projects)]

\* LoadConfig: the configuration, or an error
LoadConfig(env) ==
    LET p == loadProjectConfig(env.projectFile) IN
    IF p.err THEN [err |-> TRUE]
    ELSE IF env.SlackToken = "" THEN [err |-> TRUE]
    ELSE [err |-> FALSE,
          config |-> [Projects |-> p.Projects,
                      DockerLogsLineLimit |-> env.lineLimit]]

\* NewRedisClient: the ping of the connection test
NewRedisClient(env) == [err |-> ~env.redisUp]

\* main's `config` before LoadConfig has returned one
NoConfig == [Projects |-> <<>>, DockerLogsLineLimit |-> 0]

\* Config.DockerLogsLineLimit: the configured number of log lines
DockerLogsLineLimit == config.DockerLogsLineLimit

\* Config.Projects, as loadProjectConfig built it
Projects == config.Projects

----------------------------------------------------------------------------
(* Sequences of characters *)

SeqsUpTo(S, n) == UNION {[1..k -> S] : k \in 0..n}

\* unicode.IsSpace, on the ASCII white space a TLA+ string can hold
IsSpace(c) == c \in {" ", "\t", "\n", "\f", "\r"}

RECURSIVE TrimLeft(_)
TrimLeft(s) ==
    IF s # <<>> /\ IsSpace(Head(s)) THEN TrimLeft(Tail(s)) ELSE s

RECURSIVE TrimRight(_)
TrimRight(s) ==
    IF s # <<>> /\ IsSpace(s[Len(s)]) THEN TrimRight(SubSeq(s, 1, Len(s) - 1)) ELSE s

\* mutant: trims the leading white space only
TrimSpace_LeftOnly(s) == TrimLeft(s)

\* strings.TrimSpace
TrimSpace(s) == TrimRight(TrimLeft(s))

----------------------------------------------------------------------------
(* JSON *)

\* a value of Go type interface{} decoded from JSON: a string, or something else
JString(s) == [type |-> "string", value |-> s]
JNumber == [type |-> "number"]

\* v.(string): the type assertion, ok and value
IsString(obj, k) == k \in DOMAIN obj /\ obj[k].type = "string"

\* the empty JSON object
EmptyObject == <<>>

\* objects that hold key k with a value of S, or do not hold it
Opt(k, S) == {EmptyObject} \cup {k :> v : v \in S}

\* a payload json.Unmarshal rejects (not JSON, or a field of the wrong type)
Malformed == [valid |-> FALSE]
Raw(obj) == [valid |-> TRUE, object |-> obj]

\* a struct field of type string: the zero value when the key is absent
StringField(obj, k, zero) == IF k \in DOMAIN obj THEN obj[k] ELSE zero

\* json.Unmarshal into a SlackCommand
UnmarshalSlackCommand(payload) ==
    IF ~payload.valid
    THEN [err |-> TRUE]
    ELSE [err |-> FALSE,
          cmd |-> [Command |-> StringField(payload.object, "command", ""),
                   Text |-> StringField(payload.object, "text", <<>>),
                   ChannelID |-> StringField(payload.object, "channel_id", "")]]

\* json.Unmarshal into a PoppitCommandOutput; Metadata is a nil map when the key
\* is absent (or null)
UnmarshalPoppitCommandOutput(payload) ==
    IF ~payload.valid
    THEN [err |-> TRUE]
    ELSE [err |-> FALSE,
          out |-> [Type |-> StringField(payload.object, "type", ""),
                   Command |-> StringField(payload.object, "command", ""),
                   Output |-> StringField(payload.object, "output", ""),
                   Metadata |-> IF "metadata" \in DOMAIN payload.object
                                THEN [nil |-> FALSE, map |-> payload.object.metadata]
                                ELSE [nil |-> TRUE, map |-> EmptyObject]]]

\* json.Marshal of a PoppitPayload: no field is omitted (strings, a string slice
\* and a map of strings: Marshal returns no error)
MarshalPoppitPayload(p) ==
    [repo |-> p.Repo, branch |-> p.Branch, type |-> p.Type, dir |-> p.Dir,
     commands |-> p.Commands, metadata |-> p.Metadata]

\* mutant: thread_ts is written even when it is empty (no omitempty)
MarshalSlackLinerPayload_NoOmit(p) ==
    ("channel" :> p.Channel) @@
    (IF p.Text = <<>> THEN EmptyObject ELSE "text" :> p.Text) @@
    (IF p.Blocks = <<>> THEN EmptyObject ELSE "blocks" :> p.Blocks) @@
    ("metadata" :> [event_type |-> p.Metadata.EventType,
                    event_payload |-> p.Metadata.EventPayload]) @@
    (IF p.TTL = 0 THEN EmptyObject ELSE "ttl" :> p.TTL) @@
    ("thread_ts" :> p.ThreadTS)

\* json.Marshal of a SlackLinerPayload: text, blocks, ttl and thread_ts are
\* omitempty; metadata is a struct, which omitempty never omits
MarshalSlackLinerPayload(p) ==
    ("channel" :> p.Channel) @@
    (IF p.Text = <<>> THEN EmptyObject ELSE "text" :> p.Text) @@
    (IF p.Blocks = <<>> THEN EmptyObject ELSE "blocks" :> p.Blocks) @@
    ("metadata" :> [event_type |-> p.Metadata.EventType,
                    event_payload |-> p.Metadata.EventPayload]) @@
    (IF p.TTL = 0 THEN EmptyObject ELSE "ttl" :> p.TTL) @@
    (IF p.ThreadTS = "" THEN EmptyObject ELSE "thread_ts" :> p.ThreadTS)

----------------------------------------------------------------------------
(* Redis and the two outbound lists.  A handler runs on a record            *)
(* [lists, calls, fetches]: the lists, and the RPush calls and the          *)
(* GetMessage calls made so far by this run.                                *)

\* mutant: a failed write is tried once more, and the second try succeeds
RPush_Retry(st, key, value, err) ==
    [st EXCEPT
        !.lists = [@ EXCEPT ![key] = Append(@, value)],
        !.calls = IF err
                  THEN @ \o <<[key |-> key, value |-> value, err |-> TRUE],
                              [key |-> key, value |-> value, err |-> FALSE]>>
                  ELSE Append(@, [key |-> key, value |-> value, err |-> FALSE])]

\* RedisClient.RPush: err is the error the call returns (TRUE: nothing is stored)
RPush(st, key, value, err) ==
    [st EXCEPT
        !.lists = IF err THEN @ ELSE [@ EXCEPT ![key] = Append(@, value)],
        !.calls = Append(@, [key |-> key, value |-> value, err |-> err])]

\* mutant: the request is pushed to SlackLiner's list
sendToPoppit_WrongList(st, payload, err) ==
    RPush(st, SlackLinerListName, MarshalPoppitPayload(payload), err)

\* mutant: a failed push of a request is reported in the configured channel
sendToPoppit_ReportError(st, payload, err) ==
    IF err
    THEN RPush(RPush(st, PoppitListName, MarshalPoppitPayload(payload), TRUE),
               SlackLinerListName,
               ("channel" :> SlackChannel) @@
               ("text" :> <<"failed to push to Redis list">>) @@
               ("metadata" :> [event_type |-> "slack-compose",
                               event_payload |-> EmptyObject]),
               FALSE)
    ELSE RPush(st, PoppitListName, MarshalPoppitPayload(payload), err)

\* mutant: a request that is already in the list is not pushed again, which
\* makes the handler read what other events have written
sendToPoppit_Dedup(st, payload, err) ==
    IF \E i \in 1..Len(st.lists[PoppitListName]) :
           st.lists[PoppitListName][i] = MarshalPoppitPayload(payload)
    THEN st
    ELSE RPush(st, PoppitListName, MarshalPoppitPayload(payload), err)

sendToPoppit(st, payload, err) ==
    RPush(st, PoppitListName, MarshalPoppitPayload(payload), err)

\* mutant: a message that is already in the list is not pushed again
sendToSlackLiner_Dedup(st, payload, err) ==
    IF \E i \in 1..Len(st.lists[SlackLinerListName]) :
           st.lists[SlackLinerListName][i] = MarshalSlackLinerPayload(payload)
    THEN st
    ELSE RPush(st, SlackLinerListName, MarshalSlackLinerPayload(payload), err)

\* mutant: a chat message is also put on Poppit's list, as if to be run
sendToSlackLiner_Echo(st, payload, err) ==
    RPush(RPush(st, SlackLinerListName, MarshalSlackLinerPayload(payload), err),
          PoppitListName, MarshalSlackLinerPayload(payload), FALSE)

sendToSlackLiner(st, payload, err) ==
    RPush(st, SlackLinerListName, MarshalSlackLinerPayload(payload), err)

----------------------------------------------------------------------------
(* The slash-command path *)

\* the Block Kit blocks of the dialog: their types and element identifiers
DialogBlocks ==
    << [type |-> "section"],
       [type |-> "input", block_id |-> BlockIDProjectBlock,
        action_id |-> ActionIDSlackCompose],
       [type |-> "divider"],
       [type |-> "section"],
       [type |-> "actions",
        action_ids |-> <<ActionDockerUp, ActionDockerRestart, ActionDockerDown>>],
       [type |-> "section"],
       [type |-> "actions", action_ids |-> <<ActionDockerPS, ActionDockerLogs>>] >>

\* mutant: the dialog is tagged like a command's output and sent to the default channel
sendBlockKitDialog_AsOutput(st, channel, err) ==
    sendToSlackLiner(st,
        [Channel |-> SlackChannel, Text |-> <<>>, Blocks |-> DialogBlocks,
         TTL |-> DefaultTTLSeconds,
         Metadata |-> [EventType |-> "slack-compose", EventPayload |-> EmptyObject],
         ThreadTS |-> ""],
        err)

sendBlockKitDialog(st, channel, err) ==
    sendToSlackLiner(st,
        [Channel |-> channel, Text |-> <<>>, Blocks |-> DialogBlocks,
         TTL |-> DefaultTTLSeconds,
         Metadata |-> [EventType |-> "slack-compose-dialog",
                       EventPayload |-> EmptyObject],
         ThreadTS |-> ""],
        err)

\* mutant: any command that starts a compose flow is taken
IsSlackComposeCommand_Any(cmd) == cmd.Command # ""

\* the filter on the command name
IsSlackComposeCommand(cmd) == cmd.Command = "/slack-compose"

\* mutant: the request of a slash command names a thread
CommandPoppitPayload_Threaded(projectName, project) ==
    [Repo |-> projectName,
     Branch |-> DefaultGitBranch,
     Type |-> "slack-compose",
     Dir |-> project.WorkingDir,
     Commands |-> <<"docker compose ps">>,
     Metadata |-> ("project" :> JString(projectName)) @@
                  ("thread_ts" :> JString("1700000000.000000")) @@
                  ("channel" :> JString("C1"))]

\* mutant: the request of a slash command carries no metadata
CommandPoppitPayload_NoMetadata(projectName, project) ==
    [Repo |-> projectName,
     Branch |-> DefaultGitBranch,
     Type |-> "slack-compose",
     Dir |-> project.WorkingDir,
     Commands |-> <<"docker compose ps">>,
     Metadata |-> EmptyObject]

\* the request of the slash-command path
CommandPoppitPayload(projectName, project) ==
    [Repo |-> projectName,
     Branch |-> DefaultGitBranch,
     Type |-> "slack-compose",
     Dir |-> project.WorkingDir,
     Commands |-> <<"docker compose ps">>,
     Metadata |-> ("project" :> JString(projectName))]

\* mutant: a command that does not decode is answered with the dialog
handleCommand_DialogOnError(st, payload, err) ==
    LET r == UnmarshalSlackCommand(payload) IN
    IF r.err THEN sendBlockKitDialog(st, "", err)
    ELSE IF ~IsSlackComposeCommand(r.cmd) THEN st
    ELSE LET projectName == TrimSpace(r.cmd.Text) IN
         IF projectName = <<>>
         THEN sendBlockKitDialog(st, r.cmd.ChannelID, err)
         ELSE IF projectName \notin DOMAIN Projects
         THEN sendBlockKitDialog(st, r.cmd.ChannelID, err)
         ELSE sendToPoppit(st,
                  CommandPoppitPayload(projectName, Projects[projectName]), err)

\* mutant: the dialog branches do not return, so an empty or unknown project
\* falls through to the request
handleCommand_FallThrough(st, payload, err) ==
    LET r == UnmarshalSlackCommand(payload) IN
    IF r.err THEN st
    ELSE IF ~IsSlackComposeCommand(r.cmd) THEN st
    ELSE LET projectName == TrimSpace(r.cmd.Text)
             st1 == IF projectName = <<>> \/ projectName \notin DOMAIN Projects
                    THEN sendBlockKitDialog(st, r.cmd.ChannelID, err)
                    ELSE st
             project == IF projectName \in DOMAIN Projects
                        THEN Projects[projectName]
                        ELSE [Name |-> <<>>, WorkingDir |-> ""]
         IN sendToPoppit(st1, CommandPoppitPayload(projectName, project), err)

handleCommand(st, payload, err) ==
    LET r == UnmarshalSlackCommand(payload) IN
    IF r.err THEN st
    ELSE IF ~IsSlackComposeCommand(r.cmd) THEN st
    ELSE LET projectName == TrimSpace(r.cmd.Text) IN
         IF projectName = <<>>
         THEN sendBlockKitDialog(st, r.cmd.ChannelID, err)
         ELSE IF projectName \notin DOMAIN Projects
         THEN sendBlockKitDialog(st, r.cmd.ChannelID, err)
         ELSE sendToPoppit(st,
                  CommandPoppitPayload(projectName, Projects[projectName]), err)

----------------------------------------------------------------------------
(* The execution-result path *)

\* mutant: any typed output is taken
IsSlackComposeOutput_Any(out) == out.Type # ""

\* the filter on the output's type
IsSlackComposeOutput(out) == out.Type = "slack-compose"

\* mutant: only the project is read from the metadata
MetadataString_ProjectOnly(out, k, zero) ==
    IF k = "project" /\ ~out.Metadata.nil /\ IsString(out.Metadata.map, k)
    THEN out.Metadata.map[k].value
    ELSE zero

\* metadata[k].(string) under the nil check: the string, or the zero value
MetadataString(out, k, zero) ==
    IF ~out.Metadata.nil /\ IsString(out.Metadata.map, k)
    THEN out.Metadata.map[k].value
    ELSE zero

\* mutant: the project key is always written
OutputEventPayload_AlwaysProject(command, projectName) ==
    ("command" :> JString(command)) @@ ("project" :> JString(projectName))

\* the event payload of an output message
OutputEventPayload(command, projectName) ==
    ("command" :> JString(command)) @@
    (IF projectName # <<>> THEN "project" :> JString(projectName) ELSE EmptyObject)

\* mutant: the output always goes to the configured channel
TargetChannel_Default(channel) == SlackChannel

\* mutant: the channel of the metadata is used as it is, also when empty
TargetChannel_Verbatim(channel) == channel

\* the channel of an output message
TargetChannel(channel) == IF channel # "" THEN channel ELSE SlackChannel

\* fmt.Sprintf of the message text: the format's literal parts and its arguments
\* (a quote ' stands for the format's backquote, which a TLA+ string cannot hold)
OutputText(projectName, command, output) ==
    <<"*Project:* ", projectName, "\n*Command:* '", command, "'\n'''\n", output, "\n'''">>

\* mutant: the router routes a result only when this process has sent a
\* request, as one that kept its pending requests in memory would
handlePoppitOutput_Pending(st, payload, err) ==
    LET r == UnmarshalPoppitCommandOutput(payload) IN
    IF r.err THEN st
    ELSE IF ~IsSlackComposeOutput(r.out) THEN st
    ELSE IF Len(st.lists[PoppitListName]) = process.dispatched THEN st
    ELSE LET projectName == MetadataString(r.out, "project", <<>>)
             threadTS == MetadataString(r.out, "thread_ts", "")
             channel == MetadataString(r.out, "channel", "")
         IN sendToSlackLiner(st,
                [Channel |-> TargetChannel(channel),
                 Text |-> OutputText(projectName, r.out.Command, r.out.Output),
                 Blocks |-> <<>>,
                 Metadata |-> [EventType |-> "slack-compose",
                               EventPayload |->
                                   OutputEventPayload(r.out.Command, projectName)],
                 TTL |-> DefaultTTLSeconds,
                 ThreadTS |-> threadTS],
                err)

handlePoppitOutput(st, payload, err) ==
    LET r == UnmarshalPoppitCommandOutput(payload) IN
    IF r.err THEN st
    ELSE IF ~IsSlackComposeOutput(r.out) THEN st
    ELSE LET projectName == MetadataString(r.out, "project", <<>>)
             threadTS == MetadataString(r.out, "thread_ts", "")
             channel == MetadataString(r.out, "channel", "")
         IN sendToSlackLiner(st,
                [Channel |-> TargetChannel(channel),
                 Text |-> OutputText(projectName, r.out.Command, r.out.Output),
                 Blocks |-> <<>>,
                 Metadata |-> [EventType |-> "slack-compose",
                               EventPayload |->
                                   OutputEventPayload(r.out.Command, projectName)],
                 TTL |-> DefaultTTLSeconds,
                 ThreadTS |-> threadTS],
                err)

----------------------------------------------------------------------------
(* Commands of the two trigger tables *)

\* fmt.Sprintf("%d", n)
FormatInt(n) == ToString(n)

\* mutant: the logs command is sent as the table holds it
expandCommand_Bare(cmd) == cmd

\* the command with the configuration's values filled in
expandCommand(cmd) ==
    IF cmd = "docker compose logs"
    THEN "docker compose logs -n " \o FormatInt(DockerLogsLineLimit)
    ELSE cmd

\* mutant: the table still holds the emoji of an earlier release
getCommandForEmoji_Legacy(emoji) ==
    IF emoji = "page_with_curl"
    THEN [ok |-> TRUE, command |-> expandCommand("docker compose logs")]
    ELSE IF emoji \in DOMAIN emojiToCommand
    THEN [ok |-> TRUE, command |-> expandCommand(emojiToCommand[emoji])]
    ELSE [ok |-> FALSE, command |-> ""]

getCommandForEmoji(emoji) ==
    IF emoji \in DOMAIN emojiToCommand
    THEN [ok |-> TRUE, command |-> expandCommand(emojiToCommand[emoji])]
    ELSE [ok |-> FALSE, command |-> ""]

\* mutant: the button's command is not expanded
getCommandForActionID_Unexpanded(actionID) ==
    IF actionID \in DOMAIN actionIDToCommand
    THEN [ok |-> TRUE, command |-> actionIDToCommand[actionID]]
    ELSE [ok |-> FALSE, command |-> ""]

getCommandForActionID(actionID) ==
    IF actionID \in DOMAIN actionIDToCommand
    THEN [ok |-> TRUE, command |-> expandCommand(actionIDToCommand[actionID])]
    ELSE [ok |-> FALSE, command |-> ""]

\* mutant: a project that is not configured is looked up without the check, as
\* the map's zero value
LookupProject_NoCheck(projectName) ==
    IF projectName \in DOMAIN Projects
    THEN [exists |-> TRUE, project |-> Projects[projectName]]
    ELSE [exists |-> TRUE, project |-> [Name |-> <<>>, WorkingDir |-> ""]]

\* mutant: a name that only begins a configured project's name finds that
\* project
LookupProject_Prefix(projectName) ==
    LET begun == {name \in DOMAIN Projects :
                     /\ projectName # <<>>
                     /\ Len(name) >= Len(projectName)
                     /\ SubSeq(name, 1, Len(projectName)) = projectName}
    IN IF begun # {}
       THEN [exists |-> TRUE, project |-> Projects[CHOOSE name \in begun : TRUE]]
       ELSE [exists |-> FALSE, project |-> [Name |-> <<>>, WorkingDir |-> ""]]

\* project, exists := s.config.Projects[projectName]
LookupProject(projectName) ==
    IF projectName \in DOMAIN Projects
    THEN [exists |-> TRUE, project |-> Projects[projectName]]
    ELSE [exists |-> FALSE, project |-> [Name |-> <<>>, WorkingDir |-> ""]]

----------------------------------------------------------------------------
(* The reaction path *)

\* json.Unmarshal into a SlackReaction
UnmarshalSlackReaction(payload) ==
    IF ~payload.valid
    THEN [err |-> TRUE]
    ELSE LET event == StringField(payload.object, "event", EmptyObject)
             item == StringField(event, "item", EmptyObject)
         IN [err |-> FALSE,
             reaction |->
                 [Event |-> [Reaction |-> StringField(event, "reaction", ""),
                             Item |-> [Channel |-> StringField(item, "channel", ""),
                                       TS |-> StringField(item, "ts", "")]]]]

\* the SlackMessage of a message without metadata
NoMetadata == [EventType |-> "", EventPayload |-> EmptyObject]

\* mutant: a failed call of the history API is repeated once
GetMessage_Retry(st, channel, timestamp, history) ==
    LET call == [channel |-> channel, ts |-> timestamp, answer |-> history]
        called == [st EXCEPT !.fetches = Append(@, call)]
    IN IF history.err
       THEN [st |-> [called EXCEPT !.fetches = Append(@, call)], err |-> TRUE]
       ELSE IF Len(history.Messages) = 0 THEN [st |-> called, err |-> TRUE]
       ELSE LET msg == history.Messages[1] IN
            [st |-> called, err |-> FALSE,
             message |-> [Metadata |-> IF msg.Metadata.EventType # ""
                                       THEN msg.Metadata
                                       ELSE NoMetadata]]

\* SlackClient.GetMessage: one call of the conversation history API, which
\* answers `history`; the call is logged in st.fetches
GetMessage(st, channel, timestamp, history) ==
    LET call == [channel |-> channel, ts |-> timestamp, answer |-> history]
        called == [st EXCEPT !.fetches = Append(@, call)]
    IN IF history.err THEN [st |-> called, err |-> TRUE]
       ELSE IF Len(history.Messages) = 0 THEN [st |-> called, err |-> TRUE]
       ELSE LET msg == history.Messages[1] IN
            [st |-> called, err |-> FALSE,
             message |-> [Metadata |-> IF msg.Metadata.EventType # ""
                                       THEN msg.Metadata
                                       ELSE NoMetadata]]

\* mutant: any message that carries metadata is taken
IsSlackComposeMessage_Any(message) == message.Metadata.EventType # ""

\* the filter on the message's event type
IsSlackComposeMessage(message) == message.Metadata.EventType = "slack-compose"

\* mutant: a message without a project is taken for the first project's
MessageProject_Default(message) ==
    IF "project" \in DOMAIN message.Metadata.EventPayload
    THEN IF IsString(message.Metadata.EventPayload, "project")
         THEN [ok |-> TRUE, name |-> message.Metadata.EventPayload["project"].value]
         ELSE [ok |-> FALSE, name |-> <<>>]
    ELSE [ok |-> TRUE, name |-> <<"a">>]

\* message.Metadata.EventPayload["project"].(string)
MessageProject(message) ==
    IF IsString(message.Metadata.EventPayload, "project")
    THEN [ok |-> TRUE, name |-> message.Metadata.EventPayload["project"].value]
    ELSE [ok |-> FALSE, name |-> <<>>]

\* mutant: the two coordinates of the message are swapped
ReactionPoppitPayload_Swapped(projectName, project, command, item) ==
    [Repo |-> projectName,
     Branch |-> DefaultGitBranch,
     Type |-> "slack-compose",
     Dir |-> project.WorkingDir,
     Commands |-> <<command>>,
     Metadata |-> ("project" :> JString(projectName)) @@
                  ("thread_ts" :> JString(item.Channel)) @@
                  ("channel" :> JString(item.TS))]

\* the request of the reaction path
ReactionPoppitPayload(projectName, project, command, item) ==
    [Repo |-> projectName,
     Branch |-> DefaultGitBranch,
     Type |-> "slack-compose",
     Dir |-> project.WorkingDir,
     Commands |-> <<command>>,
     Metadata |-> ("project" :> JString(projectName)) @@
                  ("thread_ts" :> JString(item.TS)) @@
                  ("channel" :> JString(item.Channel))]

handleReaction(st, payload, history, err) ==
    LET r == UnmarshalSlackReaction(payload) IN
    IF r.err THEN st
    ELSE
    LET c == getCommandForEmoji(r.reaction.Event.Reaction) IN
    IF ~c.ok THEN st
    ELSE
    LET g == GetMessage(st, r.reaction.Event.Item.Channel,
                        r.reaction.Event.Item.TS, history)
    IN
    IF g.err THEN g.st
    ELSE IF ~IsSlackComposeMessage(g.message) THEN g.st
    ELSE
    LET p == MessageProject(g.message) IN
    IF ~p.ok \/ p.name = <<>> THEN g.st
    ELSE
    LET l == LookupProject(p.name) IN
    IF ~l.exists THEN g.st
    ELSE sendToPoppit(g.st,
             ReactionPoppitPayload(p.name, l.project, c.command,
                                   r.reaction.Event.Item),
             err)

----------------------------------------------------------------------------
(* The block-action path *)

\* json.Unmarshal into a BlockActionElement
UnmarshalBlockActionElement(obj) ==
    [ActionID |-> StringField(obj, "action_id", ""),
     Type |-> StringField(obj, "type", "")]

\* json.Unmarshal into a BlockActionValue: SelectedOption is a nil pointer when
\* the key is absent (or null)
UnmarshalBlockActionValue(obj) ==
    [SelectedOption |->
        IF "selected_option" \in DOMAIN obj
        THEN [nil |-> FALSE,
              Value |-> StringField(obj["selected_option"], "value", <<>>)]
        ELSE [nil |-> TRUE, Value |-> <<>>]]

\* json.Unmarshal into a SlackBlockAction
UnmarshalSlackBlockAction(payload) ==
    IF ~payload.valid
    THEN [err |-> TRUE]
    ELSE LET actions == StringField(payload.object, "actions", <<>>)
             state == StringField(payload.object, "state", EmptyObject)
             values == StringField(state, "values", EmptyObject)
             message == StringField(payload.object, "message", EmptyObject)
             channel == StringField(payload.object, "channel", EmptyObject)
         IN [err |-> FALSE,
             action |->
                 [Actions |-> [i \in 1..Len(actions) |->
                                  UnmarshalBlockActionElement(actions[i])],
                  State |-> [Values |->
                      [b \in DOMAIN values |->
                          [f \in DOMAIN values[b] |->
                              UnmarshalBlockActionValue(values[b][f])]]],
                  Message |-> [TS |-> StringField(message, "ts", "")],
                  Channel |-> [ID |-> StringField(channel, "id", "")]]]

\* mutant: the selection is read from whichever block holds the select
SelectedProject_AnyBlock(action) ==
    LET values == action.State.Values
        holders == {b \in DOMAIN values :
                       /\ ActionIDSlackCompose \in DOMAIN values[b]
                       /\ ~values[b][ActionIDSlackCompose].SelectedOption.nil}
    IN IF holders # {}
       THEN values[CHOOSE b \in holders : TRUE][ActionIDSlackCompose].SelectedOption.Value
       ELSE <<>>

\* the project selected in the dialog's state, or the empty string
SelectedProject(action) ==
    LET values == action.State.Values IN
    IF BlockIDProjectBlock \in DOMAIN values
    THEN IF ActionIDSlackCompose \in DOMAIN values[BlockIDProjectBlock]
         THEN IF ~values[BlockIDProjectBlock][ActionIDSlackCompose].SelectedOption.nil
              THEN values[BlockIDProjectBlock][ActionIDSlackCompose].SelectedOption.Value
              ELSE <<>>
         ELSE <<>>
    ELSE <<>>

\* mutant: the request of a block action carries the project only
BlockActionPoppitPayload_NoOrigin(projectName, project, command, action) ==
    [Repo |-> projectName,
     Branch |-> DefaultGitBranch,
     Type |-> "slack-compose",
     Dir |-> project.WorkingDir,
     Commands |-> <<command>>,
     Metadata |-> ("project" :> JString(projectName))]

\* the request of the block-action path
BlockActionPoppitPayload(projectName, project, command, action) ==
    LET channel == IF action.Channel.ID # "" THEN action.Channel.ID ELSE ""
        threadTS == IF action.Message.TS # "" THEN action.Message.TS ELSE ""
    IN [Repo |-> projectName,
        Branch |-> DefaultGitBranch,
        Type |-> "slack-compose",
        Dir |-> project.WorkingDir,
        Commands |-> <<command>>,
        Metadata |-> ("project" :> JString(projectName)) @@
                     ("thread_ts" :> JString(threadTS)) @@
                     ("channel" :> JString(channel))]

\* mutant: the loop ends at the first action it does not take
RECURSIVE processActions_Break(_, _, _, _, _, _)
processActions_Break(st, action, i, projectName, project, errs) ==
    IF i > Len(action.Actions) THEN st
    ELSE
    LET act == action.Actions[i] IN
    IF act.Type # "button" THEN st
    ELSE
    LET c == getCommandForActionID(act.ActionID) IN
    IF ~c.ok THEN st
    ELSE processActions_Break(
             sendToPoppit(st,
                 BlockActionPoppitPayload(projectName, project, c.command, action),
                 errs[i]),
             action, i + 1, projectName, project, errs)

\* mutant: the loop ends at the first request that cannot be sent
RECURSIVE processActions_AbortOnError(_, _, _, _, _, _)
processActions_AbortOnError(st, action, i, projectName, project, errs) ==
    IF i > Len(action.Actions) THEN st
    ELSE
    LET act == action.Actions[i]
        next == processActions_AbortOnError(st, action, i + 1, projectName,
                                            project, errs)
    IN
    IF act.Type # "button" THEN next
    ELSE
    LET c == getCommandForActionID(act.ActionID) IN
    IF ~c.ok THEN next
    ELSE
    LET sent == sendToPoppit(st,
                    BlockActionPoppitPayload(projectName, project, c.command, action),
                    errs[i])
    IN IF errs[i] THEN sent
       ELSE processActions_AbortOnError(sent, action, i + 1, projectName,
                                        project, errs)

\* mutant: the requests of the later actions are sent first
RECURSIVE processActions_LastFirst(_, _, _, _, _, _)
processActions_LastFirst(st, action, i, projectName, project, errs) ==
    IF i > Len(action.Actions) THEN st
    ELSE
    LET act == action.Actions[i]
        rest == processActions_LastFirst(st, action, i + 1, projectName, project,
                                         errs)
    IN
    IF act.Type # "button" THEN rest
    ELSE
    LET c == getCommandForActionID(act.ActionID) IN
    IF ~c.ok THEN rest
    ELSE sendToPoppit(rest,
             BlockActionPoppitPayload(projectName, project, c.command, action),
             errs[i])

\* the loop over action.Actions, from the i-th on; errs[i] is the error of the
\* RPush for the i-th action
RECURSIVE processActions(_, _, _, _, _, _)
processActions(st, action, i, projectName, project, errs) ==
    IF i > Len(action.Actions) THEN st
    ELSE
    LET act == action.Actions[i]
        next == processActions(st, action, i + 1, projectName, project, errs)
    IN
    IF act.Type # "button" THEN next
    ELSE
    LET c == getCommandForActionID(act.ActionID) IN
    IF ~c.ok THEN next
    ELSE processActions(
             sendToPoppit(st,
                 BlockActionPoppitPayload(projectName, project, c.command, action),
                 errs[i]),
             action, i + 1, projectName, project, errs)

handleBlockAction(st, payload, errs) ==
    LET r == UnmarshalSlackBlockAction(payload) IN
    IF r.err THEN st
    ELSE
    LET projectName == SelectedProject(r.action) IN
    IF projectName = <<>> THEN st
    ELSE
    LET l == LookupProject(projectName) IN
    IF ~l.exists THEN st
    ELSE processActions(st, r.action, 1, projectName, l.project, errs)

----------------------------------------------------------------------------
(* Messages on the subscribed channels *)

Chars == {" ", "\t", "a", "A"}
Texts == SeqsUpTo(Chars, MaxTextLen)

CommandPayloads ==
    {Malformed} \cup
    {Raw(c @@ t @@ ch) :
        c \in Opt("command", {"/slack-compose", "/other"}),
        t \in Opt("text", Texts),
        ch \in Opt("channel_id", {"C1"})}

MetadataObjects ==
    {p @@ t @@ c :
        p \in Opt("project", {JString(<<"a">>), JString(<<>>), JNumber}),
        t \in Opt("thread_ts", {JString("1700000000.000100"), JString(""), JNumber}),
        c \in Opt("channel", {JString("C1"), JString(""), JNumber})}

PoppitOutputPayloads ==
    {Malformed} \cup
    {Raw(t @@ c @@ o @@ m) :
        t \in Opt("type", {"slack-compose", "other"}),
        c \in {"command" :> x : x \in {"docker compose ps", "docker compose up -d"}},
        o \in {"output" :> "done"},
        m \in Opt("metadata", MetadataObjects)}

\* an execution result as Poppit publishes it for a request: the request's type,
\* command and metadata, and the command's output
CommandOutput(request) ==
    Raw([type |-> request.type, command |-> request.commands[1],
         output |-> "done", metadata |-> request.metadata])

\* the results of the requests that are in Poppit's list
CommandOutputs ==
    {CommandOutput(lists[PoppitListName][i]) : i \in 1..Len(lists[PoppitListName])}

Reactions ==
    DOMAIN emojiToCommand \cup {"page_with_curl", "thumbsup", "up_arrow", "down_arrow"}

ReactionPayloads ==
    {Malformed} \cup
    {Raw("event" :> (r @@ ("item" :> (c @@ t)))) :
        r \in Opt("reaction", Reactions),
        c \in {"channel" :> "C1"},
        t \in {"ts" :> x : x \in {"1700000000.000100", "1700000000.000300"}}}

\* the metadata of a message in a channel's history
MessageMetadata ==
    {[EventType |-> "", EventPayload |-> EmptyObject],
     [EventType |-> "slack-compose-dialog", EventPayload |-> EmptyObject]} \cup
    {[EventType |-> t,
      EventPayload |-> ("command" :> JString("docker compose ps")) @@ p] :
        t \in {"slack-compose", "other"},
        p \in Opt("project", {JString(<<"a">>), JString(<<"A", "a">>), JString(<<>>),
                              JString(<<"A">>), JNumber})}

\* the answers of the conversation history API: an error, no message, or the
\* one message asked for
Histories ==
    {[err |-> TRUE], [err |-> FALSE, Messages |-> <<>>]} \cup
    {[err |-> FALSE, Messages |-> <<[Metadata |-> m]>>] : m \in MessageMetadata}

\* the elements of a block action's `actions`
ActionElements ==
    {("action_id" :> a) @@ ("type" :> t) :
        a \in {ActionDockerUp, ActionDockerLogs, "other_action"}, t \in {"button"}}
    \cup {("action_id" :> ActionDockerUp) @@ ("type" :> "static_select")}

\* {"selected_option": {"value": v}}
Selected(v) == "selected_option" :> ("value" :> v)

\* the `state` of a block action
ActionStates ==
    {"state" :> ("values" :>
         ("other_block" :> (ActionIDSlackCompose :> Selected(<<"a">>)))),
     "state" :> ("values" :>
         (BlockIDProjectBlock :> (ActionIDSlackCompose :> EmptyObject)))} \cup
    {"state" :> ("values" :>
         (BlockIDProjectBlock :> (ActionIDSlackCompose :> Selected(v)))) :
        v \in {<<>>, <<"a">>, <<"A">>}}

\* the message and the channel of a block action
ActionOrigins ==
    {("message" :> ("ts" :> "1700000000.000200")) @@ ("channel" :> ("id" :> "C2"))}

BlockActionPayloads ==
    {Malformed} \cup
    {Raw(("actions" :> a) @@ s @@ o) :
        a \in SeqsUpTo(ActionElements, MaxActions),
        s \in ActionStates,
        o \in ActionOrigins}

----------------------------------------------------------------------------
(* The listeners.  A listener's loop iteration is two steps: it receives a  *)
(* message and runs the handler to its end (the handlers hold no state and  *)
(* never read the lists, so a run is one step), then goes back to its       *)
(* select, where the message goes out of scope.  `handled` and `before`     *)
(* observe the iteration in between; handled.slack is what the history API  *)
(* answers for the message of a reaction, whether or not the handler asks.  *)

Idle == [listener |-> "none"]

\* a listener may receive: it is at its select and a message is still to come
AtSelect == process.phase = "running" /\ handled = Idle /\ nHandled < MaxEvents

\* the goroutines Start launches, by the name of their function
ListenerNames ==
    {"listenForCommands", "listenForReactions", "listenForPoppitOutput",
     "listenForBlockActions"}

\* mutant: the loop takes the next message while the handler still runs, as
\* it would with the handler started in a goroutine of its own
Selecting_Detached(listener) == AtSelect

\* the listener's goroutine is in its loop, at the select
Selecting(listener) == AtSelect /\ process.pc[listener] = "select"

Run(listener, payload, slack, run) ==
    LET st == run IN
    /\ lists' = st.lists
    /\ handled' = [listener |-> listener, payload |-> payload, slack |-> slack,
                   rpush |-> st.calls, fetch |-> st.fetches]
    /\ before' = lists
    /\ nHandled' = nHandled + 1
    /\ UNCHANGED <<config, process>>

\* the handler has no Slack client call in its code
NoSlack == [err |-> TRUE]

Fresh == [lists |-> lists, calls |-> <<>>, fetches |-> <<>>]

listenForCommands ==
    /\ Selecting("listenForCommands")
    /\ \E payload \in CommandPayloads, err \in BOOLEAN :
           Run("listenForCommands", payload, NoSlack, handleCommand(Fresh, payload, err))

listenForPoppitOutput ==
    /\ Selecting("listenForPoppitOutput")
    /\ \E payload \in PoppitOutputPayloads \cup CommandOutputs, err \in BOOLEAN :
           Run("listenForPoppitOutput", payload, NoSlack,
               handlePoppitOutput(Fresh, payload, err))

\* the number of RPush calls a block action can lead to
NumActions(payload) == IF payload.valid THEN Len(payload.object["actions"]) ELSE 0

listenForReactions ==
    /\ Selecting("listenForReactions")
    /\ \E payload \in ReactionPayloads, history \in Histories, err \in BOOLEAN :
           Run("listenForReactions", payload, history,
               handleReaction(Fresh, payload, history, err))

listenForBlockActions ==
    /\ Selecting("listenForBlockActions")
    /\ \E payload \in BlockActionPayloads :
           \E errs \in [1..NumActions(payload) -> BOOLEAN] :
               Run("listenForBlockActions", payload, NoSlack,
                   handleBlockAction(Fresh, payload, errs))

\* the end of the loop body: back to the select
Continue ==
    /\ handled # Idle
    /\ handled' = Idle
    /\ before' = lists
    /\ UNCHANGED <<lists, nHandled, config, process>>

\* the process as main started it for the first time in environment env;
\* restarts and dispatched are bookkeeping of the model (see Restart).  ctx is
\* the context main hands to Start, pc where each listener's goroutine is,
\* fetching the reaction whose handler waits in GetMessage, pushing the block
\* action whose handler is between two RPush calls (each empty or one entry)
Started(env, phase) ==
    [phase |-> phase, env |-> env, restarts |-> 0, dispatched |-> 0,
     ctx |-> "live",
     pc |-> [l \in ListenerNames |-> IF phase = "running" THEN "select" ELSE "idle"],
     fetching |-> <<>>,
     pushing |-> <<>>]

\* the service after main has started it in the default environment
Init ==
    /\ lists = (PoppitListName :> <<>>) @@ (SlackLinerListName :> <<>>)
    /\ handled = Idle
    /\ before = lists
    /\ nHandled = 0
    /\ config = LoadConfig(DefaultEnvironment).config
    /\ process = Started(DefaultEnvironment, "running")

Next ==
    \/ listenForCommands
    \/ listenForPoppitOutput
    \/ listenForReactions
    \/ listenForBlockActions
    \/ Continue

Spec == Init /\ [][Next]_vars

(* The service with traffic on some of its channels only: the behaviours of *)
(* Spec in which the other listeners receive nothing.                       *)

NextCommands ==
    \/ listenForCommands
    \/ listenForPoppitOutput
    \/ Continue

SpecCommands == Init /\ [][NextCommands]_vars

NextReactions ==
    \/ listenForReactions
    \/ Continue

SpecReactions == Init /\ [][NextReactions]_vars

NextBlockActions ==
    \/ listenForBlockActions
    \/ Continue

SpecBlockActions == Init /\ [][NextBlockActions]_vars

(* The command tables as functions of the configuration: the service in     *)
(* every environment that differs from the default one in the line limit,   *)
(* with a step that looks a name up in each table.                          *)

LineLimits == 0..MaxLineLimit

ActionIDs == DOMAIN actionIDToCommand \cup {"other_action"}

BaseCommands ==
    {emojiToCommand[e] : e \in DOMAIN emojiToCommand} \cup
    {actionIDToCommand[a] : a \in DOMAIN actionIDToCommand} \cup
    {"docker compose logs -f"}

InitAnyLimit ==
    /\ lists = (PoppitListName :> <<>>) @@ (SlackLinerListName :> <<>>)
    /\ handled = Idle
    /\ before = lists
    /\ nHandled = 0
    /\ \E limit \in LineLimits :
           LET env == Environment(ProjectFile(ProjectRecords), "xoxb-token",
                                  TRUE, limit)
           IN /\ config = LoadConfig(env).config
              /\ process = Started(env, "running")

\* one call of each of getCommandForEmoji, getCommandForActionID, expandCommand
ExpandCommands ==
    /\ process.phase = "running"
    /\ handled = Idle
    /\ \E emoji \in Reactions, actionID \in ActionIDs, cmd \in BaseCommands :
           handled' = [listener |-> "ExpandCommands",
                       emoji |-> emoji,
                       actionID |-> actionID,
                       cmd |-> cmd,
                       forEmoji |-> getCommandForEmoji(emoji),
                       forActionID |-> getCommandForActionID(actionID),
                       expanded |-> expandCommand(cmd)]
    /\ before' = lists
    /\ UNCHANGED <<lists, nHandled, config, process>>

NextExpander ==
    \/ ExpandCommands
    \/ Continue

SpecExpander == InitAnyLimit /\ [][NextExpander]_vars

----------------------------------------------------------------------------
(* A registry with a record whose name is empty *)

\* loadProjectConfig stores every record of the file under its name and does
\* not look at the name: a record with an empty name becomes Projects[""]
UnnamedProjectRecords ==
    Append(ProjectRecords, [Name |-> <<>>, WorkingDir |-> "/srv"])

InitUnnamedProject ==
    LET env == Environment(ProjectFile(UnnamedProjectRecords), "xoxb-token", TRUE,
                           ConfiguredLineLimit)
    IN /\ lists = (PoppitListName :> <<>>) @@ (SlackLinerListName :> <<>>)
       /\ handled = Idle
       /\ before = lists
       /\ nHandled = 0
       /\ config = LoadConfig(env).config
       /\ process = Started(env, "running")

SpecUnnamedProject == InitUnnamedProject /\ [][Next]_vars

----------------------------------------------------------------------------
(* The process: startup, and a restart of the running service *)

\* main up to service.Start: the configuration is loaded, then Redis is
\* pinged; an error of either ends the process (os.Exit) before NewService
Startup(env) ==
    LET c == LoadConfig(env) IN
    IF c.err THEN [phase |-> "exited", config |-> NoConfig]
    ELSE IF NewRedisClient(env).err THEN [phase |-> "exited", config |-> NoConfig]
    ELSE [phase |-> "running", config |-> c.config]

\* The process ends on a signal (main returns after cancel, and with it every
\* listener and all that the Service held) and is started again in the same
\* environment.  The two lists are Redis's and stay.  process.dispatched
\* records how many requests the list held at the start: the requests sent by
\* an earlier process.  Only restarts after this process has sent a request
\* are followed: the result of such a request may still be on its way.
Restart ==
    /\ process.phase = "running"
    /\ process.restarts < MaxRestarts
    /\ Len(lists[PoppitListName]) > process.dispatched
    /\ LET s == Startup(process.env) IN
       /\ config' = s.config
       /\ process' = [process EXCEPT
              !.phase = s.phase,
              !.restarts = @ + 1,
              !.dispatched = Len(lists[PoppitListName]),
              !.ctx = "live",
              !.fetching = <<>>,
              !.pushing = <<>>,
              !.pc = [l \in ListenerNames |->
                         IF s.phase = "running" THEN "select" ELSE "idle"]]
    /\ handled' = Idle
    /\ before' = lists
    /\ UNCHANGED <<lists, nHandled>>

NextRestart ==
    \/ listenForReactions
    \/ listenForPoppitOutput
    \/ Restart
    \/ Continue

SpecRestart == Init /\ [][NextRestart]_vars

----------------------------------------------------------------------------
(* The service from the start of main, in any environment *)

\* the project file, the token and Redis as main may find them
Environments ==
    {Environment(file, token, redisUp, ConfiguredLineLimit) :
        file \in {MissingFile, UnreadableFile, MalformedFile,
                  ProjectFile(ProjectRecords)},
        token \in {"", "xoxb-token"},
        redisUp \in BOOLEAN}

InitStartup ==
    /\ lists = (PoppitListName :> <<>>) @@ (SlackLinerListName :> <<>>)
    /\ handled = Idle
    /\ before = lists
    /\ nHandled = 0
    /\ config = NoConfig
    /\ \E env \in Environments : process = Started(env, "starting")

\* main: the process exits, or the service is created and its listeners start
main ==
    /\ process.phase = "starting"
    /\ LET s == Startup(process.env) IN
       /\ config' = s.config
       /\ process' = [process EXCEPT
              !.phase = s.phase,
              !.pc = IF s.phase = "running"
                     THEN [l \in ListenerNames |-> "select"]
                     ELSE @]
    /\ UNCHANGED <<lists, handled, before, nHandled>>

NextStartup ==
    \/ main
    \/ listenForCommands
    \/ listenForPoppitOutput
    \/ listenForReactions
    \/ listenForBlockActions
    \/ Continue

SpecStartup == InitStartup /\ [][NextStartup]_vars

----------------------------------------------------------------------------
(* Shutdown: the signal, the listeners' ctx.Done branch, and main's return *)

\* main receives SIGINT or SIGTERM from sigChan and calls cancel()
Signal ==
    /\ process.phase = "running"
    /\ process.ctx = "live"
    /\ process' = [process EXCEPT !.ctx = "cancelled"]
    /\ UNCHANGED <<lists, handled, before, nHandled, config>>

\* case <-ctx.Done() of a listener's select: the function returns, and its
\* deferred calls close the subscription and release the wait group
ObserveDone(listener) ==
    /\ process.phase = "running"
    /\ process.ctx = "cancelled"
    /\ process.pc[listener] = "select"
    /\ process' = [process EXCEPT !.pc[listener] = "returned"]
    /\ UNCHANGED <<lists, handled, before, nHandled, config>>

listenersObserveDone == \E listener \in ListenerNames : ObserveDone(listener)

\* case msg := <-ch with msg == nil: continue, no handler is called
ReceiveNil ==
    /\ process.phase = "running"
    /\ handled = Idle
    /\ \E listener \in ListenerNames :
           /\ process.pc[listener] = "select"
           /\ handled' = [listener |-> listener, nil |-> TRUE]
    /\ before' = lists
    /\ UNCHANGED <<lists, nHandled, config, process>>

\* main returns after cancel(): the process ends, and every goroutine with it,
\* wherever it is; main does not call service.Wait()
Exit ==
    /\ process.phase = "running"
    /\ process.ctx = "cancelled"
    /\ process' = [process EXCEPT !.phase = "exited"]
    /\ UNCHANGED <<lists, handled, before, nHandled, config>>

NextShutdown ==
    \/ listenForCommands
    \/ listenForPoppitOutput
    \/ listenForReactions
    \/ listenForBlockActions
    \/ ReceiveNil
    \/ Continue
    \/ Signal
    \/ listenersObserveDone
    \/ Exit

\* Go's select chooses among its ready cases at random, so a listener at its
\* select takes the ctx.Done case in the end however many messages are ready;
\* main, once signalled, runs on to its return
ShutdownFairness ==
    /\ \A listener \in ListenerNames : WF_vars(ObserveDone(listener))
    /\ WF_vars(Exit)

SpecShutdown == Init /\ [][NextShutdown]_vars /\ ShutdownFairness

----------------------------------------------------------------------------
(* The listeners as concurrent goroutines: a reaction's handler may wait in *)
(* GetMessage, and a block action's handler may be between two RPush calls,  *)
(* while the other listeners run.                                            *)

\* handleReaction gets as far as its GetMessage call for this payload
CallsGetMessage(payload) ==
    handleReaction(Fresh, payload, [err |-> TRUE], FALSE).fetches # <<>>

\* listenForReactions receives a message and handleReaction calls GetMessage,
\* which has not returned yet
BlockInGetMessage ==
    /\ Selecting("listenForReactions")
    /\ \E payload \in ReactionPayloads :
           /\ CallsGetMessage(payload)
           /\ process' = [process EXCEPT !.pc["listenForReactions"] = "GetMessage",
                                         !.fetching = <<payload>>]
    /\ nHandled' = nHandled + 1
    /\ UNCHANGED <<lists, handled, before, config>>

\* GetMessage returns with the API's answer and handleReaction runs to its end
GetMessageReturns ==
    /\ process.phase = "running"
    /\ process.pc["listenForReactions"] = "GetMessage"
    /\ handled = Idle
    /\ \E history \in Histories, err \in BOOLEAN :
           LET payload == process.fetching[1]
               st == handleReaction(Fresh, payload, history, err)
           IN /\ lists' = st.lists
              /\ handled' = [listener |-> "listenForReactions", payload |-> payload,
                             slack |-> history, rpush |-> st.calls,
                             fetch |-> st.fetches]
    /\ before' = lists
    /\ process' = [process EXCEPT !.pc["listenForReactions"] = "select",
                                  !.fetching = <<>>]
    /\ UNCHANGED <<nHandled, config>>

\* listenForBlockActions receives a message whose handler makes more than one
\* RPush call; the calls it will make do not depend on the lists
BlockActionReceive ==
    /\ Selecting("listenForBlockActions")
    /\ \E payload \in BlockActionPayloads :
           \E errs \in [1..NumActions(payload) -> BOOLEAN] :
               LET st == handleBlockAction(Fresh, payload, errs) IN
               /\ Len(st.calls) > 1
               /\ process' = [process EXCEPT
                      !.pc["listenForBlockActions"] = "RPush",
                      !.pushing = <<[payload |-> payload, calls |-> st.calls,
                                     done |-> 0]>>]
    /\ nHandled' = nHandled + 1
    /\ UNCHANGED <<lists, handled, before, config>>

\* the next RPush call of the block action's handler reaches Redis
BlockActionPush ==
    /\ process.phase = "running"
    /\ process.pc["listenForBlockActions"] = "RPush"
    /\ handled = Idle
    /\ LET task == process.pushing[1]
           k == task.done + 1
           call == task.calls[k]
       IN /\ lists' = RPush(Fresh, call.key, call.value, call.err).lists
          /\ handled' = [listener |-> "listenForBlockActions",
                         payload |-> task.payload, slack |-> NoSlack,
                         rpush |-> <<call>>, fetch |-> <<>>, call |-> k]
          /\ process' = IF k = Len(task.calls)
                        THEN [process EXCEPT !.pc["listenForBlockActions"] = "select",
                                             !.pushing = <<>>]
                        ELSE [process EXCEPT !.pushing[1].done = k]
    /\ before' = lists
    /\ UNCHANGED <<nHandled, config>>

NextConcurrent ==
    \/ listenForCommands
    \/ listenForPoppitOutput
    \/ listenForReactions
    \/ listenForBlockActions
    \/ BlockInGetMessage
    \/ GetMessageReturns
    \/ BlockActionReceive
    \/ BlockActionPush
    \/ Continue

SpecConcurrent == Init /\ [][NextConcurrent]_vars

----------------------------------------------------------------------------
(* Block actions that do not come from a message in a channel: the payload   *)
(* may lack `message`, `message.ts`, `channel` or `channel.id`.               *)

\* the message and the channel of a block action, each present or not
AnyActionOrigins ==
    {m @@ c :
        m \in Opt("message", {EmptyObject, "ts" :> "1700000000.000200"}),
        c \in Opt("channel", {EmptyObject, "id" :> "C2"})}

\* the elements of their `actions`: a button of the table, and another one
AnyOriginElements ==
    {("action_id" :> a) @@ ("type" :> "button") :
        a \in {ActionDockerUp, "other_action"}}

\* block actions with a selected project (a configured one, or not)
AnyOriginPayloads ==
    {Raw(("actions" :> a) @@ s @@ o) :
        a \in SeqsUpTo(AnyOriginElements, MaxActions),
        s \in {"state" :> ("values" :>
                  (BlockIDProjectBlock :> (ActionIDSlackCompose :> Selected(v)))) :
                  v \in {<<"a">>, <<"A">>}},
        o \in AnyActionOrigins}

\* listenForBlockActions with the block actions of any origin
listenForBlockActionsOfAnyOrigin ==
    /\ Selecting("listenForBlockActions")
    /\ \E payload \in AnyOriginPayloads :
           \E errs \in [1..NumActions(payload) -> BOOLEAN] :
               Run("listenForBlockActions", payload, NoSlack,
                   handleBlockAction(Fresh, payload, errs))

NextAnyOrigin ==
    \/ listenForBlockActionsOfAnyOrigin
    \/ listenForPoppitOutput
    \/ Continue

SpecAnyOrigin == Init /\ [][NextAnyOrigin]_vars

----------------------------------------------------------------------------
(* Vocabulary of the properties *)

PoppitList == lists[PoppitListName]
SlackLinerList == lists[SlackLinerListName]
PoppitListBefore == before[PoppitListName]
SlackLinerListBefore == before[SlackLinerListName]

\* the field of the received JSON object, or the zero value of its Go type
Received(k, zero) ==
    IF k \in DOMAIN handled.payload.object THEN handled.payload.object[k] ELSE zero

\* a slash command that decoded was handled by the last step
CommandHandled == handled.listener = "listenForCommands" /\ handled.payload.valid

\* ... and its command is the registered trigger
TriggerHandled == CommandHandled /\ Received("command", "") = "/slack-compose"

WhiteSpace == {" ", "\t", "\n", "\f", "\r"}

\* text is name with white space (only) before and after it
Surrounds(text, name) ==
    \E i \in 0..Len(text) :
        /\ i + Len(name) <= Len(text)
        /\ SubSeq(text, i + 1, i + Len(name)) = name
        /\ \A k \in 1..Len(text) :
               (k <= i \/ k > i + Len(name)) => text[k] \in WhiteSpace

\* the trimmed text of the handled command is the registered project `name`
KnownProjectCommand(name) ==
    /\ TriggerHandled
    /\ name \in DOMAIN Projects
    /\ Surrounds(Received("text", <<>>), name)

\* the trimmed text of the handled command is empty or no registered project
FallbackCommand ==
    /\ TriggerHandled
    /\ \A name \in DOMAIN Projects : ~Surrounds(Received("text", <<>>), name)

\* one append to list `key`: the handler made exactly one RPush call, on `key`;
\* the list is what it was with the call's value after it (or, when Redis
\* answered the call with an error, what it was), and the other list is as it was
OneAppendTo(key) ==
    /\ Len(handled.rpush) = 1
    /\ handled.rpush[1].key = key
    /\ lists[key] = IF handled.rpush[1].err THEN before[key]
                    ELSE Append(before[key], handled.rpush[1].value)
    /\ \A other \in DOMAIN lists : other # key => lists[other] = before[other]

\* the handler made no RPush call and both lists are as they were
NoAppend == handled.rpush = <<>> /\ lists = before

----------------------------------------------------------------------------
(* C1: a "/slack-compose" command whose trimmed text is a registered project  *)
(* appends exactly one execution request, whose metadata.project is that     *)
(* name, to the execution list, and nothing to the chat-output list.         *)
C1_KnownProjectOneRequest ==
    \A name \in DOMAIN Projects :
        KnownProjectCommand(name) =>
            /\ OneAppendTo(PoppitListName)
            /\ "project" \in DOMAIN handled.rpush[1].value.metadata
            /\ handled.rpush[1].value.metadata.project = JString(name)

C1_Witness ==
    /\ KnownProjectCommand(<<"A", "a">>)
    /\ Len(PoppitList) = Len(PoppitListBefore) + 1
    /\ PoppitList[Len(PoppitList)].metadata.project = JString(<<"A", "a">>)
    /\ SlackLinerList = SlackLinerListBefore

(* C2: a "/slack-compose" command whose trimmed text is empty or is not a    *)
(* key of the registry (exact, case-sensitive match) appends one chat-output *)
(* message carrying the dialog, tagged "slack-compose-dialog" and addressed  *)
(* to the command's own channel_id, and no execution request.                *)
C2_FallbackOneDialog ==
    FallbackCommand =>
        /\ OneAppendTo(SlackLinerListName)
        /\ handled.rpush[1].value.metadata.event_type = "slack-compose-dialog"
        /\ handled.rpush[1].value.channel = Received("channel_id", "")
        /\ "blocks" \in DOMAIN handled.rpush[1].value
        /\ handled.rpush[1].value.blocks = DialogBlocks
        /\ PoppitList = PoppitListBefore

\* the text is a registered name in the wrong case
C2_Witness ==
    /\ FallbackCommand
    /\ Received("text", <<>>) = <<"A">>
    /\ Received("channel_id", "") = "C1"
    /\ SlackLinerList = Append(SlackLinerListBefore, handled.rpush[1].value)
    /\ SlackLinerList[Len(SlackLinerList)].metadata.event_type = "slack-compose-dialog"
    /\ PoppitList = PoppitListBefore

(* C3: a handled "/slack-compose" command makes exactly one append, to the   *)
(* execution list (normal path) or to the chat-output list (fallback path),  *)
(* and never an append to both.                                              *)
C3_OneQueueOnly ==
    TriggerHandled =>
        /\ OneAppendTo(PoppitListName) \/ OneAppendTo(SlackLinerListName)
        /\ ~(PoppitList # PoppitListBefore /\ SlackLinerList # SlackLinerListBefore)
        /\ \A i \in 1..Len(handled.rpush) : handled.rpush[i].key = handled.rpush[1].key

\* both paths were taken in one behaviour, the fallback after the normal one
C3_Witness ==
    /\ FallbackCommand
    /\ Len(PoppitList) = 1 /\ PoppitListBefore = PoppitList
    /\ SlackLinerListBefore = <<>> /\ Len(SlackLinerList) = 1

(* C4: a slash command whose command is not "/slack-compose" leaves both     *)
(* lists unchanged, whatever its text and channel.                           *)
C4_OtherCommandIgnored ==
    (CommandHandled /\ ~TriggerHandled) => NoAppend

\* another command, with the text of a registered project
C4_Witness ==
    /\ CommandHandled
    /\ Received("command", "") = "/other"
    /\ Received("text", <<>>) = <<"a">>
    /\ Received("channel_id", "") = "C1"
    /\ NoAppend

(* C5: the slash-command path looks the trimmed text up: for a registered    *)
(* name with white space around it the request has repo = the name, dir =    *)
(* the project's working directory, branch = "refs/heads/main", type =       *)
(* "slack-compose" and commands = <<"docker compose ps">>.                   *)
C5_TrimmedLookupRequest ==
    \A name \in DOMAIN Projects :
        KnownProjectCommand(name) =>
            /\ Len(handled.rpush) = 1
            /\ handled.rpush[1].key = PoppitListName
            /\ handled.rpush[1].value.repo = name
            /\ handled.rpush[1].value.dir = Projects[name].WorkingDir
            /\ handled.rpush[1].value.branch = "refs/heads/main"
            /\ handled.rpush[1].value.type = "slack-compose"
            /\ handled.rpush[1].value.commands = <<"docker compose ps">>

\* white space on both sides of the name
C5_Witness ==
    /\ KnownProjectCommand(<<"a">>)
    /\ Received("text", <<>>) = <<" ", "a", " ">>
    /\ PoppitList = Append(PoppitListBefore, handled.rpush[1].value)
    /\ PoppitList[Len(PoppitList)].dir = "/srv/a"
    /\ PoppitList[Len(PoppitList)].repo = <<"a">>

----------------------------------------------------------------------------
(* Vocabulary of the execution-result properties *)

\* an execution result that decoded was handled by the last step
OutputHandled == handled.listener = "listenForPoppitOutput" /\ handled.payload.valid

\* ... and its type is the marker of this service's requests
SlackComposeOutputHandled == OutputHandled /\ Received("type", "") = "slack-compose"

\* the result's metadata holds a non-empty JSON string under key k
MetadataCarries(k, empty) ==
    /\ "metadata" \in DOMAIN handled.payload.object
    /\ k \in DOMAIN handled.payload.object.metadata
    /\ handled.payload.object.metadata[k].type = "string"
    /\ handled.payload.object.metadata[k].value # empty

\* the chat message the handler pushed, as JSON
Posted == handled.rpush[1].value

(* C6: every execution result of type "slack-compose" makes exactly one      *)
(* append to the chat-output list; nothing is deduplicated, so a result      *)
(* whose message is already in the list is appended again.                   *)
C6_OneMessagePerResult ==
    SlackComposeOutputHandled => OneAppendTo(SlackLinerListName)

\* the same result delivered twice: the list holds its message twice
C6_Witness ==
    /\ SlackComposeOutputHandled
    /\ Len(SlackLinerListBefore) = 1
    /\ SlackLinerList = <<SlackLinerListBefore[1], SlackLinerListBefore[1]>>
    /\ Posted = SlackLinerListBefore[1]

(* C7: an execution result whose type is not "slack-compose" leaves both     *)
(* lists unchanged, whatever its command, output and metadata.               *)
C7_OtherTypeIgnored ==
    (OutputHandled /\ ~SlackComposeOutputHandled) => NoAppend

\* a result of another type that carries a project, a thread and a channel
C7_Witness ==
    /\ OutputHandled
    /\ Received("type", "") = "other"
    /\ MetadataCarries("project", <<>>)
    /\ MetadataCarries("thread_ts", "")
    /\ MetadataCarries("channel", "")
    /\ NoAppend

(* C8: the chat message of an execution result is addressed to               *)
(* metadata.channel when the metadata carries a channel, and to the          *)
(* configured default channel otherwise (no metadata, no channel key, an     *)
(* empty channel).                                                           *)
C8_TargetChannel ==
    SlackComposeOutputHandled =>
        /\ Len(handled.rpush) = 1
        /\ handled.rpush[1].key = SlackLinerListName
        /\ Posted.channel = IF MetadataCarries("channel", "")
                            THEN handled.payload.object.metadata.channel.value
                            ELSE "#slack-compose"

\* a result routed by its metadata, after one routed to the default channel
C8_Witness ==
    /\ SlackComposeOutputHandled
    /\ MetadataCarries("channel", "")
    /\ Len(SlackLinerListBefore) = 1
    /\ SlackLinerListBefore[1].channel = "#slack-compose"
    /\ Len(SlackLinerList) = 2
    /\ SlackLinerList[2].channel = "C1"

(* C9: the chat message of an execution result has thread_ts equal to        *)
(* metadata.thread_ts when the metadata carries one, and has no thread_ts    *)
(* (a top-level message) when it does not.                                   *)
C9_ThreadTimestamp ==
    SlackComposeOutputHandled =>
        /\ Len(handled.rpush) = 1
        /\ handled.rpush[1].key = SlackLinerListName
        /\ IF MetadataCarries("thread_ts", "")
           THEN /\ "thread_ts" \in DOMAIN Posted
                /\ Posted.thread_ts = handled.payload.object.metadata.thread_ts.value
           ELSE "thread_ts" \notin DOMAIN Posted

\* a threaded reply, after a top-level message
C9_Witness ==
    /\ SlackComposeOutputHandled
    /\ MetadataCarries("thread_ts", "")
    /\ Len(SlackLinerListBefore) = 1
    /\ "thread_ts" \notin DOMAIN SlackLinerListBefore[1]
    /\ Len(SlackLinerList) = 2
    /\ "thread_ts" \in DOMAIN SlackLinerList[2]
    /\ SlackLinerList[2].thread_ts = "1700000000.000100"

(* C10: an execution result of type "slack-compose" whose metadata lacks a   *)
(* project, or that has no metadata, is not dropped: it makes exactly one    *)
(* chat-output append, whose event payload holds the command and no project. *)
C10_NoProjectStillPosted ==
    (SlackComposeOutputHandled /\ ~MetadataCarries("project", <<>>)) =>
        /\ OneAppendTo(SlackLinerListName)
        /\ Posted.metadata.event_type = "slack-compose"
        /\ DOMAIN Posted.metadata.event_payload = {"command"}
        /\ Posted.metadata.event_payload.command = JString(Received("command", ""))

\* a result with no metadata at all
C10_Witness ==
    /\ SlackComposeOutputHandled
    /\ "metadata" \notin DOMAIN handled.payload.object
    /\ SlackLinerList = Append(SlackLinerListBefore, Posted)
    /\ "project" \notin DOMAIN SlackLinerList[Len(SlackLinerList)].metadata.event_payload
    /\ SlackLinerList[Len(SlackLinerList)].metadata.event_payload.command =
           JString("docker compose ps")

----------------------------------------------------------------------------
(* Vocabulary of the properties of results, reactions and block actions *)

\* the handled execution result is the result of the i-th request that was in
\* the execution list
ResultOfRequest(i) ==
    /\ OutputHandled
    /\ i \in 1..Len(PoppitListBefore)
    /\ Received("type", "") = PoppitListBefore[i].type
    /\ Received("command", "") = PoppitListBefore[i].commands[1]
    /\ "metadata" \in DOMAIN handled.payload.object
    /\ handled.payload.object.metadata = PoppitListBefore[i].metadata

(* C11: every chat-output message posted as the result of a command (of a    *)
(* request that was appended to the execution list, by any of the three      *)
(* trigger paths) carries eventType "slack-compose" and an                   *)
(* eventPayload.project equal to the project the request was made for.       *)
C11_ResultCarriesProject ==
    \A i \in 1..Len(PoppitListBefore) :
        ResultOfRequest(i) =>
            /\ handled.rpush # <<>>
            /\ Posted.metadata.event_type = "slack-compose"
            /\ "project" \in DOMAIN Posted.metadata.event_payload
            /\ Posted.metadata.event_payload.project =
                   JString(PoppitListBefore[i].repo)

\* the result of a request that a reaction made for project "Aa"
C11_Witness ==
    /\ ResultOfRequest(1)
    /\ PoppitListBefore[1].repo = <<"A", "a">>
    /\ "thread_ts" \in DOMAIN PoppitListBefore[1].metadata
    /\ Len(SlackLinerList) = Len(SlackLinerListBefore) + 1
    /\ SlackLinerList[Len(SlackLinerList)].metadata.event_payload.project =
           JString(<<"A", "a">>)

\* a reaction event that decoded was handled by the last step
ReactionHandled == handled.listener = "listenForReactions" /\ handled.payload.valid

\* the event's emoji name, and the message it was put on
ReactionName ==
    IF "reaction" \in DOMAIN handled.payload.object["event"]
    THEN handled.payload.object["event"]["reaction"]
    ELSE ""

ReactionItem == handled.payload.object["event"]["item"]

\* the four entries of the emoji table
RecognizedEmoji ==
    {"arrow_up", "arrow_down", "arrows_counterclockwise", "page_facing_up"}

\* a reaction with one of the four emoji was handled
RecognizedReactionHandled == ReactionHandled /\ ReactionName \in RecognizedEmoji

(* C12: a reaction whose name is not one of the four entries of the emoji    *)
(* table appends to neither list and makes no call to the chat metadata      *)
(* resolver (no message is fetched).                                         *)
C12_UnrecognizedReactionIgnored ==
    (ReactionHandled /\ ReactionName \notin RecognizedEmoji) =>
        /\ NoAppend
        /\ handled.fetch = <<>>

\* the log emoji of an earlier release is not recognized
C12_Witness ==
    /\ ReactionHandled
    /\ ReactionName = "page_with_curl"
    /\ handled.fetch = <<>>
    /\ lists = before

\* the answer to the handler's (first) fetch of the message
Fetched == handled.fetch[1].answer

\* the fetch failed: the API returned an error, or no message
FetchFailed ==
    /\ RecognizedReactionHandled
    /\ handled.fetch # <<>>
    /\ (Fetched.err \/ Fetched.Messages = <<>>)

(* C13: when the metadata fetch of a recognized reaction fails (API error,   *)
(* or message not found) nothing is appended to either list; the fetch is    *)
(* not retried: a reaction event makes at most one fetch call.               *)
C13_FetchFailureNoRetry ==
    /\ ReactionHandled => Len(handled.fetch) <= 1
    /\ FetchFailed => NoAppend

\* the API fails for a recognized reaction: one call, nothing appended
C13_Witness ==
    /\ FetchFailed
    /\ Fetched.err
    /\ ReactionName = "arrow_up"
    /\ Len(handled.fetch) = 1
    /\ handled.fetch[1].ts = ReactionItem["ts"]
    /\ handled.rpush = <<>>

\* a message was fetched for a recognized reaction; its metadata
MessageFetched ==
    /\ RecognizedReactionHandled
    /\ handled.fetch # <<>>
    /\ ~Fetched.err
    /\ Fetched.Messages # <<>>

FetchedMetadata == Fetched.Messages[1].Metadata

(* C14: a recognized reaction on a message whose fetched eventType is not    *)
(* "slack-compose" (a message without metadata, or the selection dialog's    *)
(* "slack-compose-dialog", or any other type) appends nothing.               *)
C14_OtherMessageIgnored ==
    (MessageFetched /\ FetchedMetadata.EventType # "slack-compose") => NoAppend

\* a message of another type that names a registered project
C14_Witness ==
    /\ MessageFetched
    /\ FetchedMetadata.EventType = "other"
    /\ "project" \in DOMAIN FetchedMetadata.EventPayload
    /\ FetchedMetadata.EventPayload.project = JString(<<"a">>)
    /\ NoAppend

\* a "slack-compose" message was fetched for a recognized reaction
ComposeMessageFetched ==
    MessageFetched /\ FetchedMetadata.EventType = "slack-compose"

\* its eventPayload.project is the registered project `name`
FetchedProjectIs(name) ==
    /\ "project" \in DOMAIN FetchedMetadata.EventPayload
    /\ FetchedMetadata.EventPayload.project.type = "string"
    /\ FetchedMetadata.EventPayload.project.value = name
    /\ name \in DOMAIN Projects

(* C15: a recognized reaction on a "slack-compose" message whose             *)
(* eventPayload.project is absent, not a string, empty or not a key of the   *)
(* registry makes no execution request (and no other append): no project is  *)
(* made up.                                                                  *)
C15_NoProjectNoRequest ==
    (ComposeMessageFetched /\ \A name \in DOMAIN Projects : ~FetchedProjectIs(name))
        => NoAppend

\* the project differs from a registered one in case only
C15_Witness ==
    /\ ComposeMessageFetched
    /\ "project" \in DOMAIN FetchedMetadata.EventPayload
    /\ FetchedMetadata.EventPayload.project = JString(<<"A">>)
    /\ NoAppend

\* the command each emoji stands for, with the configured line limit
ReactionCommand ==
    ("arrow_up" :> "docker compose up -d") @@
    ("arrow_down" :> "docker compose down") @@
    ("arrows_counterclockwise" :> "docker compose restart") @@
    ("page_facing_up" :> "docker compose logs -n 100")

(* C16: a recognized reaction on a "slack-compose" message of a registered   *)
(* project appends exactly one execution request: its single command is the  *)
(* emoji's expanded command, its directory the project's working directory,  *)
(* and its metadata exactly {project, thread_ts = the item's ts, channel =   *)
(* the item's channel}.                                                      *)
C16_ReactionOneRequest ==
    \A name \in DOMAIN Projects :
        (ComposeMessageFetched /\ FetchedProjectIs(name)) =>
            /\ OneAppendTo(PoppitListName)
            /\ handled.rpush[1].value.commands = <<ReactionCommand[ReactionName]>>
            /\ handled.rpush[1].value.dir = Projects[name].WorkingDir
            /\ handled.rpush[1].value.metadata =
                   ("project" :> JString(name)) @@
                   ("thread_ts" :> JString(ReactionItem["ts"])) @@
                   ("channel" :> JString(ReactionItem["channel"]))

\* the logs reaction on a message of project "Aa"
C16_Witness ==
    /\ ComposeMessageFetched
    /\ FetchedProjectIs(<<"A", "a">>)
    /\ ReactionName = "page_facing_up"
    /\ Len(PoppitList) = Len(PoppitListBefore) + 1
    /\ PoppitList[Len(PoppitList)].commands = <<"docker compose logs -n 100">>
    /\ PoppitList[Len(PoppitList)].dir = "/srv/Aa"
    /\ PoppitList[Len(PoppitList)].metadata.thread_ts = JString("1700000000.000300")

\* a block action that decoded was handled by the last step
BlockActionHandled ==
    handled.listener = "listenForBlockActions" /\ handled.payload.valid

\* the action entries of the handled block action
ReceivedActions == handled.payload.object["actions"]

\* the block action has a selected option under block "project_block", field
\* "SlackCompose"
HasSelection ==
    /\ "state" \in DOMAIN handled.payload.object
    /\ "project_block" \in DOMAIN handled.payload.object["state"]["values"]
    /\ "SlackCompose" \in
           DOMAIN handled.payload.object["state"]["values"]["project_block"]
    /\ "selected_option" \in
           DOMAIN handled.payload.object["state"]["values"]["project_block"]["SlackCompose"]

\* ... and `name` is its value
SelectionIs(name) ==
    /\ HasSelection
    /\ handled.payload.object["state"]["values"]["project_block"]["SlackCompose"]
           ["selected_option"]["value"] = name

\* the command each button stands for, with the configured line limit
ButtonCommand ==
    ("docker_up" :> "docker compose up -d") @@
    ("docker_down" :> "docker compose down") @@
    ("docker_restart" :> "docker compose restart") @@
    ("docker_ps" :> "docker compose ps") @@
    ("docker_logs" :> "docker compose logs -n 100")

\* an action entry that leads to a request
IsEligible(act) == act["type"] = "button" /\ act["action_id"] \in DOMAIN ButtonCommand

EligibleActions == SelectSeq(ReceivedActions, IsEligible)

(* C17: a block action without a selected option under block                 *)
(* "project_block", field "SlackCompose" (or whose selected value is empty)  *)
(* appends nothing, whatever actions it carries.                             *)
C17_NoSelectionIgnored ==
    (BlockActionHandled /\ (~HasSelection \/ SelectionIs(<<>>))) => NoAppend

\* the select is there but nothing is selected, and two known buttons are pressed
C17_Witness ==
    /\ BlockActionHandled
    /\ "project_block" \in DOMAIN handled.payload.object["state"]["values"]
    /\ ~HasSelection
    /\ Len(EligibleActions) = 2
    /\ NoAppend

(* C18: a block action whose selected project is not a key of the registry   *)
(* makes no execution request (and no other append), even when it carries    *)
(* known button actions.                                                     *)
C18_UnknownSelectionIgnored ==
    (BlockActionHandled /\ HasSelection /\ ~SelectionIs(<<>>)
        /\ \A name \in DOMAIN Projects : ~SelectionIs(name))
        => NoAppend

\* project "A" is selected (the registry holds "a" and "Aa") with a known button
C18_Witness ==
    /\ BlockActionHandled
    /\ SelectionIs(<<"A">>)
    /\ Len(EligibleActions) = Len(ReceivedActions)
    /\ Len(EligibleActions) > 0
    /\ NoAppend

(* C19: for a registered selected project, the number of execution requests  *)
(* equals the number of action entries of type "button" whose action_id is   *)
(* in the action table; the other entries are skipped without stopping the   *)
(* rest.  The k-th request is for the k-th such entry: its command, the      *)
(* project's directory, and metadata {project, thread_ts = message.ts,       *)
(* channel = channel.id}.                                                    *)
C19_OneRequestPerEligibleAction ==
    \A name \in DOMAIN Projects :
        (BlockActionHandled /\ SelectionIs(name)) =>
            /\ Len(handled.rpush) = Len(EligibleActions)
            /\ \A k \in 1..Len(handled.rpush) :
                   /\ handled.rpush[k].key = PoppitListName
                   /\ handled.rpush[k].value.repo = name
                   /\ handled.rpush[k].value.dir = Projects[name].WorkingDir
                   /\ handled.rpush[k].value.commands =
                          <<ButtonCommand[EligibleActions[k]["action_id"]]>>
                   /\ handled.rpush[k].value.metadata =
                          ("project" :> JString(name)) @@
                          ("thread_ts" :>
                              JString(handled.payload.object["message"]["ts"])) @@
                          ("channel" :>
                              JString(handled.payload.object["channel"]["id"]))

\* an unknown button, then a known one: exactly one request
C19_Witness ==
    /\ BlockActionHandled
    /\ SelectionIs(<<"a">>)
    /\ Len(ReceivedActions) = 2
    /\ ReceivedActions[1]["action_id"] = "other_action"
    /\ ReceivedActions[2]["action_id"] = "docker_logs"
    /\ Len(handled.rpush) = 1
    /\ ~handled.rpush[1].err
    /\ PoppitList = Append(PoppitListBefore,
                           handled.rpush[1].value)
    /\ handled.rpush[1].value.commands = <<"docker compose logs -n 100">>

\* the write of an RPush call succeeded
Stored(call) == ~call.err

\* the values of the handler's RPush calls that Redis stored, in order
StoredValues ==
    LET stored == SelectSeq(handled.rpush, Stored)
    IN [k \in 1..Len(stored) |-> stored[k].value]

(* C20: a failed append for one action does not abort the batch: every       *)
(* eligible action is still attempted, and the execution list grows by       *)
(* exactly the requests of the eligible actions whose own write succeeded.   *)
C20_FailedAppendDoesNotAbort ==
    (BlockActionHandled /\ \E k \in 1..Len(handled.rpush) : handled.rpush[k].err) =>
        /\ Len(handled.rpush) = Len(EligibleActions)
        /\ PoppitList = PoppitListBefore \o StoredValues
        /\ SlackLinerList = SlackLinerListBefore

\* the first of two requests is not stored, the second is
C20_Witness ==
    /\ BlockActionHandled
    /\ Len(EligibleActions) = 2
    /\ Len(handled.rpush) = 2
    /\ handled.rpush[1].err
    /\ ~handled.rpush[2].err
    /\ handled.rpush[1].value # handled.rpush[2].value
    /\ PoppitList = Append(PoppitListBefore, handled.rpush[2].value)

----------------------------------------------------------------------------
(* Vocabulary of the properties of the command tables *)

\* the tables were applied by the last step
Expanded == handled.listener = "ExpandCommands"

DecimalDigits == <<"0", "1", "2", "3", "4", "5", "6", "7", "8", "9">>

\* the decimal numeral of a natural number
RECURSIVE Decimal(_)
Decimal(n) ==
    IF n < 10 THEN DecimalDigits[n + 1]
    ELSE Decimal(n \div 10) \o DecimalDigits[(n % 10) + 1]

\* the logs command for line limit n
LogsCommand(n) == "docker compose logs -n " \o Decimal(n)

(* C21: the command expander maps arrow_up to "docker compose up -d",        *)
(* arrow_down to "docker compose down", arrows_counterclockwise to           *)
(* "docker compose restart" and page_facing_up to "docker compose logs -n L" *)
(* for the configured limit L; it leaves every command but the bare logs     *)
(* command as it is, and the limit shows in the numeral of the logs command  *)
(* only.                                                                     *)
C21_EmojiCommands ==
    Expanded =>
        /\ handled.emoji = "arrow_up" =>
               handled.forEmoji = [ok |-> TRUE, command |-> "docker compose up -d"]
        /\ handled.emoji = "arrow_down" =>
               handled.forEmoji = [ok |-> TRUE, command |-> "docker compose down"]
        /\ handled.emoji = "arrows_counterclockwise" =>
               handled.forEmoji = [ok |-> TRUE, command |-> "docker compose restart"]
        /\ handled.emoji = "page_facing_up" =>
               handled.forEmoji =
                   [ok |-> TRUE, command |-> LogsCommand(config.DockerLogsLineLimit)]
        /\ handled.cmd # "docker compose logs" => handled.expanded = handled.cmd
        /\ handled.cmd = "docker compose logs" =>
               handled.expanded = LogsCommand(config.DockerLogsLineLimit)

\* the logs emoji with a limit of two digits
C21_Witness ==
    /\ Expanded
    /\ config.DockerLogsLineLimit = 12
    /\ handled.emoji = "page_facing_up"
    /\ handled.forEmoji.command = "docker compose logs -n 12"
    /\ handled.cmd = "docker compose restart"
    /\ handled.expanded = "docker compose restart"

\* the emoji and the action ID of each action the two surfaces share
SurfaceEmoji ==
    [up |-> "arrow_up", down |-> "arrow_down",
     restart |-> "arrows_counterclockwise", logs |-> "page_facing_up"]

SurfaceActionID ==
    [up |-> "docker_up", down |-> "docker_down",
     restart |-> "docker_restart", logs |-> "docker_logs"]

(* C22: for each of the actions up, down, restart and logs and every         *)
(* configured line limit, getCommandForActionID on the action's identifier   *)
(* returns the command getCommandForEmoji returns on the action's emoji.     *)
C22_SurfaceParity ==
    \A action \in DOMAIN SurfaceEmoji :
        (Expanded /\ handled.emoji = SurfaceEmoji[action]
                  /\ handled.actionID = SurfaceActionID[action]) =>
            /\ handled.forEmoji.ok
            /\ handled.forActionID.ok
            /\ handled.forActionID.command = handled.forEmoji.command

\* the two logs triggers with a limit of 10
C22_Witness ==
    /\ Expanded
    /\ config.DockerLogsLineLimit = 10
    /\ handled.emoji = "page_facing_up"
    /\ handled.actionID = "docker_logs"
    /\ handled.forActionID = [ok |-> TRUE, command |-> "docker compose logs -n 10"]
    /\ handled.forEmoji = handled.forActionID

----------------------------------------------------------------------------
(* Vocabulary of the end-to-end properties *)

\* the message the handled reaction was put on, as the history API answers
\* for it (whether or not the handler asked): a "slack-compose" message whose
\* eventPayload.project is the registered project `name`
ReactedMessageIsOf(name) ==
    /\ ReactionHandled
    /\ ~handled.slack.err
    /\ handled.slack.Messages # <<>>
    /\ handled.slack.Messages[1].Metadata.EventType = "slack-compose"
    /\ "project" \in DOMAIN handled.slack.Messages[1].Metadata.EventPayload
    /\ handled.slack.Messages[1].Metadata.EventPayload.project = JString(name)
    /\ name \in DOMAIN Projects

\* the handler sent one execution request, with the one command `command`
OneRequestWith(command) ==
    /\ OneAppendTo(PoppitListName)
    /\ handled.rpush[1].value.commands = <<command>>

HasProject(request) ==
    /\ IsString(request.metadata, "project")
    /\ request.metadata.project.value # <<>>

\* the metadata of a request holds the message (timestamp ts in channel)
HasOrigin(request, ts, channel) ==
    /\ "thread_ts" \in DOMAIN request.metadata
    /\ "channel" \in DOMAIN request.metadata
    /\ request.metadata.thread_ts = JString(ts)
    /\ request.metadata.channel = JString(channel)

(* C24: in every reachable state every request in the execution list has     *)
(* metadata with a project that is a non-empty string, also when a project   *)
(* with an empty name is registered; and every request a reaction or a block *)
(* action sends has, in addition, metadata thread_ts and channel that are    *)
(* the timestamp and the channel of the message the event came from.         *)
C24_RequestsCarryCorrelation ==
    /\ \A i \in 1..Len(PoppitList) : HasProject(PoppitList[i])
    /\ ReactionHandled =>
           \A k \in 1..Len(handled.rpush) :
               /\ handled.rpush[k].key = PoppitListName
               /\ HasProject(handled.rpush[k].value)
               /\ HasOrigin(handled.rpush[k].value,
                            ReactionItem["ts"], ReactionItem["channel"])
    /\ BlockActionHandled =>
           \A k \in 1..Len(handled.rpush) :
               /\ handled.rpush[k].key = PoppitListName
               /\ HasProject(handled.rpush[k].value)
               /\ HasOrigin(handled.rpush[k].value,
                            handled.payload.object["message"]["ts"],
                            handled.payload.object["channel"]["id"])

\* with a project of empty name registered: the request of a reaction, then
\* the request of a block action
C24_Witness ==
    /\ <<>> \in DOMAIN Projects
    /\ BlockActionHandled
    /\ Len(handled.rpush) = 1
    /\ Len(PoppitList) = 2
    /\ HasOrigin(PoppitList[1], "1700000000.000100", "C1")
    /\ PoppitList[2] = handled.rpush[1].value
    /\ PoppitList[2].metadata.channel = JString("C2")
    /\ PoppitList[2].metadata.thread_ts = JString("1700000000.000200")

\* the request has the metadata of a threaded context
Threaded(request) ==
    /\ IsString(request.metadata, "thread_ts")
    /\ IsString(request.metadata, "channel")

\* the handler posted the message Posted: one RPush call to SlackLiner's list,
\* which stores the message unless the write fails
PostedToSlackLiner ==
    /\ Len(handled.rpush) = 1
    /\ handled.rpush[1].key = SlackLinerListName
    /\ ~handled.rpush[1].err => SlackLinerList = Append(SlackLinerListBefore, Posted)

(* C25: a request a reaction sends carries the channel and the timestamp of  *)
(* the reacted message and that message's project, a request a block action  *)
(* sends carries channel.id and message.ts; and when the result of a request *)
(* with such metadata comes back with the metadata unchanged, its output is  *)
(* posted to the channel in the metadata, with the metadata's timestamp as   *)
(* thread_ts and the request's project as eventPayload.project.              *)
C25_ThreadCorrelation ==
    /\ \A name \in DOMAIN Projects :
           (ReactedMessageIsOf(name) /\ handled.rpush # <<>>) =>
               /\ handled.rpush[1].value.repo = name
               /\ handled.rpush[1].value.metadata.project = JString(name)
               /\ HasOrigin(handled.rpush[1].value,
                            ReactionItem["ts"], ReactionItem["channel"])
    /\ BlockActionHandled =>
           \A k \in 1..Len(handled.rpush) :
               HasOrigin(handled.rpush[k].value,
                         handled.payload.object["message"]["ts"],
                         handled.payload.object["channel"]["id"])
    /\ \A i \in 1..Len(PoppitListBefore) :
           (ResultOfRequest(i) /\ Threaded(PoppitListBefore[i])) =>
               /\ PostedToSlackLiner
               /\ Posted.channel = PoppitListBefore[i].metadata.channel.value
               /\ "thread_ts" \in DOMAIN Posted
               /\ Posted.thread_ts = PoppitListBefore[i].metadata.thread_ts.value
               /\ Posted.metadata.event_payload =
                      ("command" :> JString(PoppitListBefore[i].commands[1])) @@
                      ("project" :> JString(PoppitListBefore[i].repo))

\* the result of the request of a reaction on the message 1700000000.000300
\* in C1 is stored as a reply in that thread
C25_Witness ==
    /\ ResultOfRequest(1)
    /\ HasOrigin(PoppitListBefore[1], "1700000000.000300", "C1")
    /\ Len(SlackLinerList) = Len(SlackLinerListBefore) + 1
    /\ SlackLinerList[Len(SlackLinerList)].channel = "C1"
    /\ SlackLinerList[Len(SlackLinerList)].thread_ts = "1700000000.000300"
    /\ SlackLinerList[Len(SlackLinerList)].metadata.event_payload.project =
           JString(PoppitListBefore[1].repo)

(* C26: the request of "/slack-compose <project>" is for                     *)
(* "docker compose ps" and its metadata holds the project and nothing else,  *)
(* whatever channel_id the command has; the output of such a request is      *)
(* posted to the configured channel, without a thread_ts.                    *)
C26_CommandOutputTopLevel ==
    /\ \A name \in DOMAIN Projects :
           KnownProjectCommand(name) =>
               /\ OneAppendTo(PoppitListName)
               /\ handled.rpush[1].value.commands = <<"docker compose ps">>
               /\ handled.rpush[1].value.metadata = ("project" :> JString(name))
    /\ \A i \in 1..Len(PoppitListBefore) :
           (/\ ResultOfRequest(i)
            /\ PoppitListBefore[i].commands = <<"docker compose ps">>
            /\ DOMAIN PoppitListBefore[i].metadata = {"project"}) =>
               /\ PostedToSlackLiner
               /\ Posted.channel = SlackChannel
               /\ "thread_ts" \notin DOMAIN Posted
               /\ Posted.metadata.event_payload.project =
                      JString(PoppitListBefore[i].repo)

\* the output of the ps command for project "Aa" is stored as a message of
\* the configured channel
C26_Witness ==
    /\ ResultOfRequest(1)
    /\ PoppitListBefore[1].repo = <<"A", "a">>
    /\ PoppitListBefore[1].commands = <<"docker compose ps">>
    /\ DOMAIN PoppitListBefore[1].metadata = {"project"}
    /\ SlackLinerList = Append(SlackLinerListBefore, Posted)
    /\ Posted.channel = "#slack-compose"
    /\ DOMAIN Posted = {"channel", "text", "metadata", "ttl"}

\* where the metadata of a request sends its result: the channel and the
\* thread of a threaded request, the configured channel otherwise
RouteOf(request) ==
    [channel |-> IF Threaded(request) /\ request.metadata.channel.value # ""
                 THEN request.metadata.channel.value
                 ELSE SlackChannel,
     thread |-> IF Threaded(request) THEN request.metadata.thread_ts.value ELSE "",
     project |-> request.repo]

\* where the handled result was sent
RouteTaken ==
    [channel |-> Posted.channel,
     thread |-> IF "thread_ts" \in DOMAIN Posted THEN Posted.thread_ts ELSE "",
     project |-> IF IsString(Posted.metadata.event_payload, "project")
                 THEN Posted.metadata.event_payload.project.value
                 ELSE <<>>]

(* C27: the configuration is what the environment the process was started   *)
(* in yields, whatever was handled before; and the result of a request is   *)
(* posted to the channel, thread and project its metadata names, whether    *)
(* the request was sent by this process or by one that ran before a         *)
(* restart.                                                                 *)
C27_RoutingSurvivesRestart ==
    /\ process.phase = "running" => config = LoadConfig(process.env).config
    /\ \A i \in 1..Len(PoppitListBefore) :
           ResultOfRequest(i) =>
               /\ PostedToSlackLiner
               /\ RouteTaken = RouteOf(PoppitListBefore[i])

\* a request is sent, the service restarts, and the request's result is
\* stored as a reply in the thread of the reacted message
C27_Witness ==
    /\ process.restarts = 1
    /\ process.dispatched = 1
    /\ ResultOfRequest(1)
    /\ HasOrigin(PoppitListBefore[1], "1700000000.000100", "C1")
    /\ SlackLinerList = Append(SlackLinerListBefore, Posted)
    /\ RouteTaken = [channel |-> "C1", thread |-> "1700000000.000100",
                     project |-> <<"a">>]

\* a message of the chat list is the selection dialog
IsDialogMessage(m) ==
    /\ m.metadata.event_type = "slack-compose-dialog"
    /\ "blocks" \in DOMAIN m
    /\ "text" \notin DOMAIN m

\* a message of the chat list is the output of a command
IsOutputMessage(m) ==
    /\ m.metadata.event_type = "slack-compose"
    /\ "text" \in DOMAIN m
    /\ "blocks" \notin DOMAIN m
    /\ "command" \in DOMAIN m.metadata.event_payload

\* the handler's RPush calls on the chat list
ChatCalls == {k \in 1..Len(handled.rpush) : handled.rpush[k].key = SlackLinerListName}

\* a call of the handler returned an error
SomeCallFailed == \E k \in 1..Len(handled.rpush) : handled.rpush[k].err

(* C28: in every reachable state each message of the chat list is a          *)
(* selection dialog or the output message of a command.  A handler calls     *)
(* RPush on the chat list only for the dialog of a slash command with an     *)
(* empty or unregistered project, or for the output of a "slack-compose"     *)
(* result.  A payload that does not decode, every reaction and every block   *)
(* action (so a failed fetch and an unknown project too), and every handler  *)
(* with a send that returned an error leave the chat list as it was.         *)
C28_NoErrorInChat ==
    /\ \A i \in 1..Len(SlackLinerList) :
           IsDialogMessage(SlackLinerList[i]) \/ IsOutputMessage(SlackLinerList[i])
    /\ handled # Idle =>
           /\ \A k \in ChatCalls :
                  \/ FallbackCommand /\ IsDialogMessage(handled.rpush[k].value)
                  \/ SlackComposeOutputHandled /\ IsOutputMessage(handled.rpush[k].value)
           /\ ~handled.payload.valid => (handled.rpush = <<>> /\ lists = before)
           /\ (ReactionHandled \/ BlockActionHandled) =>
                  (ChatCalls = {} /\ SlackLinerList = SlackLinerListBefore)
           /\ SomeCallFailed => SlackLinerList = SlackLinerListBefore

\* the chat list holds a dialog; the push of a slash command's request fails
\* and the chat list stays as it is
C28_Witness ==
    /\ CommandHandled
    /\ Len(handled.rpush) = 1
    /\ handled.rpush[1].key = PoppitListName
    /\ handled.rpush[1].err
    /\ Len(SlackLinerList) = 1
    /\ IsDialogMessage(SlackLinerList[1])
    /\ SlackLinerList = SlackLinerListBefore

\* the environment the process was started in
ProjectFileStatus == process.env.projectFile.status
TokenSet == process.env.SlackToken # ""
RedisUp == process.env.redisUp

\* what the claim calls fatal: a project file that cannot be read or parsed,
\* no token, or no connection to Redis
FatalEnvironment ==
    \/ ProjectFileStatus \in {"unreadable", "malformed"}
    \/ ~TokenSet
    \/ ~RedisUp

\* no event was handled and no listener ever wrote
NothingHandled ==
    /\ nHandled = 0
    /\ handled = Idle
    /\ lists = (PoppitListName :> <<>>) @@ (SlackLinerListName :> <<>>)

(* C29: with a missing project file (and a token and Redis) main does not    *)
(* exit, and the service runs with an empty registry; with a project file    *)
(* that cannot be read or parsed, without a token, or without a connection   *)
(* to Redis the process never runs a listener: it exits, and no event is     *)
(* handled before or after.                                                  *)
C29_StartupOutcomes ==
    /\ (ProjectFileStatus = "missing" /\ TokenSet /\ RedisUp) =>
           /\ process.phase # "exited"
           /\ process.phase = "running" => config.Projects = <<>>
    /\ FatalEnvironment =>
           /\ process.phase # "running"
           /\ NothingHandled
    /\ process.phase # "running" => NothingHandled
    /\ (process.phase = "running" /\ ProjectFileStatus = "ok") =>
           config.Projects = ProjectMap(process.env.projectFile.projects)

\* main found a project file with wrong syntax and exited
C29_Witness ==
    /\ ProjectFileStatus = "malformed"
    /\ TokenSet
    /\ RedisUp
    /\ process.phase = "exited"
    /\ NothingHandled

\* the payload handled by the last step did not decode
Dropped == handled # Idle /\ ~handled.payload.valid

\* the step after a drop: the listener is back at its select with the lists
\* as they were, the payload is gone, and while messages remain to be
\* delivered the listeners are ready for the next one
BackAtSelect ==
    /\ handled' = Idle
    /\ lists' = lists
    /\ nHandled' = nHandled
    /\ config' = config
    /\ process' = process
    /\ nHandled < MaxEvents => AtSelect'

(* C30: a payload that does not decode, on any of the four channels, makes   *)
(* no RPush call and no fetch and leaves both lists as they were; the only   *)
(* step that follows is the listener's return to its select, with nothing    *)
(* written and the payload not handled again, after which the next message   *)
(* is received.                                                              *)
C30_UndecodableDropped ==
    /\ [](Dropped => (handled.rpush = <<>> /\ handled.fetch = <<>> /\ lists = before))
    /\ [][Dropped => BackAtSelect]_vars

\* a block action that does not decode, after a request was queued
C30_Witness ==
    /\ Dropped
    /\ handled.listener = "listenForBlockActions"
    /\ nHandled = 2
    /\ Len(PoppitList) = 1
    /\ lists = before

\* the last step handled an event of a path that sends at most one message
\* (slash command, execution result, reaction) and its send returned an error
SingleEventSendFailed ==
    /\ handled # Idle
    /\ handled.listener \in
           {"listenForCommands", "listenForPoppitOutput", "listenForReactions"}
    /\ SomeCallFailed

(* C31: when the send of a slash command, of an execution result or of a     *)
(* reaction returns an error, RPush was called exactly once for the event    *)
(* and both lists are as they were before it; the only step that follows is  *)
(* the listener's return to its select, which writes nothing, so the event   *)
(* is neither tried again nor put back, and the listeners receive the next   *)
(* message in the state they were in before the failed event.                *)
C31_WriteErrorDropsEvent ==
    /\ [](SingleEventSendFailed => (Len(handled.rpush) = 1 /\ lists = before))
    /\ [][SingleEventSendFailed => BackAtSelect]_vars

\* the push of a reaction's request fails; the request of an earlier event is
\* all the execution list holds
C31_Witness ==
    /\ SingleEventSendFailed
    /\ ReactionHandled
    /\ handled.rpush[1].key = PoppitListName
    /\ nHandled = 2
    /\ Len(PoppitList) = 1
    /\ lists = before

\* every listener has taken its ctx.Done case and returned
AllReturned == \A listener \in ListenerNames : process.pc[listener] = "returned"

\* a listener that has returned stays returned and handles nothing more
ReturnedIsFinal ==
    \A listener \in ListenerNames :
        process.pc[listener] = "returned" =>
            /\ process.pc'[listener] = "returned"
            /\ (handled' # Idle /\ handled' # handled) => handled'.listener # listener

(* C32: once the context is cancelled, each of the four listeners in the end *)
(* takes its ctx.Done case and returns (closing its subscription), also      *)
(* while messages or nil messages keep coming; and a listener that has       *)
(* returned handles no further message.                                      *)
C32_ListenersReturn ==
    /\ (process.ctx = "cancelled") ~> AllReturned
    /\ [][ReturnedIsFinal]_vars

\* what the listeners' loop does give: after the cancellation every listener
\* returns unless the process ends first, and a returned listener is final
C32_ReturnOrExit ==
    /\ (process.ctx = "cancelled") ~> (AllReturned \/ process.phase = "exited")
    /\ [][ReturnedIsFinal]_vars

(* C33: the process does not exit while a listener has not returned (the     *)
(* code sets no timer, so there is no grace period that could elapse).       *)
C33_ExitWaitsForListeners ==
    (process.phase = "exited" /\ process.ctx = "cancelled") => AllReturned

\* the process has exited, after a signal, with a listener still at its select
C33_ExitedEarly ==
    /\ process.phase = "exited"
    /\ process.ctx = "cancelled"
    /\ process.pc["listenForReactions"] = "select"
    /\ process.pc["listenForCommands"] = "returned"

\* the reaction handler waits for GetMessage to return
ReactionBlocked == process.pc["listenForReactions"] = "GetMessage"

\* the block-action handler is between two of its RPush calls
BlockActionPushing == process.pc["listenForBlockActions"] = "RPush"

\* the step handles (a part of) a message of this listener
HandledBy(listener) ==
    handled' # Idle /\ handled' # handled /\ handled'.listener = listener

\* while its handler is not finished a listener takes no other message: the
\* only step of the listener is one of the handler on the message it holds
OneAtATime ==
    /\ ReactionBlocked =>
           /\ nHandled' = nHandled \/ process'.fetching = process.fetching
           /\ HandledBy("listenForReactions") =>
                  /\ handled'.payload = process.fetching[1]
                  /\ process'.pc["listenForReactions"] = "select"
           /\ ~HandledBy("listenForReactions") => process'.fetching = process.fetching
    /\ BlockActionPushing =>
           /\ HandledBy("listenForBlockActions") =>
                  /\ handled'.payload = process.pushing[1].payload
                  /\ handled'.rpush =
                         <<process.pushing[1].calls[process.pushing[1].done + 1]>>
           /\ ~HandledBy("listenForBlockActions") => process'.pushing = process.pushing

(* C34: a listener takes no message while the handler of its last message   *)
(* has not finished; and while the reaction handler waits in GetMessage the  *)
(* reaction listener receives nothing, but the command and the result        *)
(* listeners can each receive and handle their next message, and so can the  *)
(* block-action listener, unless it is in a handler of its own, which can    *)
(* then make its next RPush call.                                            *)
C34_OneAtATimePerListener ==
    /\ []((ReactionBlocked /\ AtSelect) =>
             /\ ENABLED listenForCommands
             /\ ENABLED listenForPoppitOutput
             /\ ~BlockActionPushing => ENABLED listenForBlockActions
             /\ ~ENABLED listenForReactions
             /\ ~ENABLED BlockInGetMessage)
    /\ []((ReactionBlocked /\ BlockActionPushing /\ handled = Idle) =>
             /\ ENABLED BlockActionPush
             /\ ~ENABLED listenForBlockActions
             /\ ~ENABLED BlockActionReceive)
    /\ [][OneAtATime]_vars

\* a slash command is handled while the reaction handler waits in GetMessage
C34_Witness ==
    /\ ReactionBlocked
    /\ CommandHandled
    /\ Len(handled.rpush) = 1
    /\ PoppitList = <<handled.rpush[1].value>>

----------------------------------------------------------------------------
(* The listeners do not interfere *)

\* a handler run on its own: both lists empty, no event before it
Isolated ==
    [lists |-> (PoppitListName :> <<>>) @@ (SlackLinerListName :> <<>>),
     calls |-> <<>>, fetches |-> <<>>]

\* the RPush calls the handled event makes when it is handled in isolation,
\* for each outcome of the calls
IsolatedCalls ==
    CASE handled.listener = "listenForCommands" ->
             {handleCommand(Isolated, handled.payload, err).calls : err \in BOOLEAN}
      [] handled.listener = "listenForPoppitOutput" ->
             {handlePoppitOutput(Isolated, handled.payload, err).calls :
                  err \in BOOLEAN}
      [] handled.listener = "listenForReactions" ->
             {handleReaction(Isolated, handled.payload, handled.slack, err).calls :
                  err \in BOOLEAN}
      [] handled.listener = "listenForBlockActions" ->
             {handleBlockAction(Isolated, handled.payload, errs).calls :
                  errs \in [1..NumActions(handled.payload) -> BOOLEAN]}

\* the values the calls stored in list key, in the order of the calls
StoredIn(key, calls) ==
    LET Stores(call) == call.key = key /\ ~call.err
    IN [k \in 1..Len(SelectSeq(calls, Stores)) |-> SelectSeq(calls, Stores)[k].value]

\* the step was one RPush call of a block action handled call by call
OneCallOfBatch == "call" \in DOMAIN handled

\* the calls of the last step are those of the event in isolation: all of
\* them, or the call the handler had come to
CallsAsInIsolation ==
    IF OneCallOfBatch
    THEN \E calls \in IsolatedCalls :
             /\ handled.call \in 1..Len(calls)
             /\ handled.rpush = <<calls[handled.call]>>
    ELSE handled.rpush \in IsolatedCalls

\* what the last step stored went to the tail of each list, in call order
AppendedInOrder ==
    \A key \in {PoppitListName, SlackLinerListName} :
        lists[key] = before[key] \o StoredIn(key, handled.rpush)

\* an event was handled (wholly or one call of it) by the last step
EventHandled == handled # Idle /\ "nil" \notin DOMAIN handled

(* C35: however the events of the four listeners interleave, the RPush      *)
(* calls of each event are the ones it makes when handled in isolation, the  *)
(* values they store are appended to the tail of their list in call order    *)
(* (so each list is the merge of the events' own appends, each listener's in *)
(* its handling order), and no step changes the project registry.            *)
C35_NoInterference ==
    /\ [](EventHandled => (CallsAsInIsolation /\ AppendedInOrder))
    /\ [][config'.Projects = config.Projects]_vars

\* a reaction's request was appended between the two requests of a block
\* action whose handler had made its first RPush call only
C35_Witness ==
    /\ BlockActionPushing
    /\ process.pushing[1].done = 1
    /\ ~process.pushing[1].calls[1].err
    /\ ReactionHandled
    /\ Len(handled.rpush) = 1
    /\ PoppitList = <<process.pushing[1].calls[1].value, handled.rpush[1].value>>

----------------------------------------------------------------------------
(* One outbound list per path *)

\* every RPush call of the last step was on list key
AllCallsOn(key) == \A k \in 1..Len(handled.rpush) : handled.rpush[k].key = key

\* the most RPush calls the handled event can make: one per action entry of
\* a block action, one for any other event
MostCalls ==
    IF handled.listener = "listenForBlockActions"
    THEN NumActions(handled.payload)
    ELSE 1

(* C36: a reaction and a block action make RPush calls on Poppit's list     *)
(* only and leave SlackLiner's list as it was; a Poppit result makes calls  *)
(* on SlackLiner's list only and leaves Poppit's list as it was, so a result *)
(* never leads to a new request; an event makes at most one call (a block   *)
(* action one per action entry), so the lists hold at most MaxActions        *)
(* entries per handled event.                                                *)
C36_OneListPerPath ==
    /\ (EventHandled /\ handled.listener \in {"listenForReactions",
                                              "listenForBlockActions"}) =>
           (AllCallsOn(PoppitListName) /\ SlackLinerList = SlackLinerListBefore)
    /\ (EventHandled /\ handled.listener = "listenForPoppitOutput") =>
           (AllCallsOn(SlackLinerListName) /\ PoppitList = PoppitListBefore)
    /\ EventHandled => Len(handled.rpush) <= MostCalls
    /\ Len(PoppitList) + Len(SlackLinerList) <= nHandled * MaxActions

\* a result was posted while a request was in Poppit's list, which kept it
C36_Witness ==
    /\ OutputHandled
    /\ Len(handled.rpush) = 1
    /\ ~handled.rpush[1].err
    /\ Len(PoppitList) = 1
    /\ PoppitList = PoppitListBefore
    /\ SlackLinerList = <<handled.rpush[1].value>>

----------------------------------------------------------------------------
(* The requests in Poppit's list *)

\* the commands of the two tables
TableCommands ==
    {emojiToCommand[emoji] : emoji \in DOMAIN emojiToCommand} \cup
    {actionIDToCommand[actionID] : actionID \in DOMAIN actionIDToCommand}

\* what a request may run: a table command as expandCommand sends it, or the
\* status command of the slash-command path
RunnableCommands ==
    {expandCommand(cmd) : cmd \in TableCommands} \cup {"docker compose ps"}

\* the request is one the service builds for a configured project
WellFormedRequest(request) ==
    /\ "project" \in DOMAIN request.metadata
    /\ request.metadata["project"] = JString(request.repo)
    /\ request.repo \in DOMAIN Projects
    /\ request.dir = Projects[request.repo].WorkingDir
    /\ request.branch = "refs/heads/main"
    /\ request.type = "slack-compose"
    /\ Len(request.commands) = 1
    /\ request.commands[1] \in RunnableCommands

(* C37: every request in Poppit's list names a configured project as repo   *)
(* and as metadata.project, has that project's working directory as dir,     *)
(* branch "refs/heads/main", type "slack-compose", and one command, which is *)
(* an expanded table command or "docker compose ps".                         *)
C37_RequestsWellFormed ==
    \A i \in 1..Len(PoppitList) : WellFormedRequest(PoppitList[i])

\* the list holds the status request of a slash command for one project and
\* a logs request for the other
C37_Witness ==
    /\ Len(PoppitList) = 2
    /\ PoppitList[1].repo = <<"A", "a">>
    /\ PoppitList[1].dir = "/srv/Aa"
    /\ PoppitList[1].commands = <<"docker compose ps">>
    /\ DOMAIN PoppitList[1].metadata = {"project"}
    /\ PoppitList[2].repo = <<"a">>
    /\ PoppitList[2].commands = <<"docker compose logs -n 100">>

----------------------------------------------------------------------------
(* The order of the requests of one block action *)

\* the commands of the eligible actions of the handled block action, in the
\* order of its action list
BatchCommands ==
    [k \in 1..Len(EligibleActions) |-> ButtonCommand[EligibleActions[k]["action_id"]]]

\* the RPush calls of the last step are for the eligible actions in their
\* order: all of them, or the one the handler had come to
CallsInActionOrder ==
    IF OneCallOfBatch
    THEN /\ handled.call \in 1..Len(EligibleActions)
         /\ handled.rpush[1].value.commands = <<BatchCommands[handled.call]>>
    ELSE /\ Len(handled.rpush) = Len(EligibleActions)
         /\ \A k \in 1..Len(handled.rpush) :
                handled.rpush[k].value.commands = <<BatchCommands[k]>>

\* a handler between two RPush calls makes the call after the last one it
\* made, and is finished with its last
CallsInTurn ==
    (BlockActionPushing /\ HandledBy("listenForBlockActions")) =>
        /\ handled'.call = process.pushing[1].done + 1
        /\ IF handled'.call = Len(process.pushing[1].calls)
           THEN process'.pc["listenForBlockActions"] = "select"
           ELSE /\ process'.pc["listenForBlockActions"] = "RPush"
                /\ process'.pushing[1].done = handled'.call

(* C38: the requests of one block action are sent in the order of its        *)
(* action list and each is appended to the tail of Poppit's list, so no       *)
(* request of a later action comes before that of an earlier one, also when   *)
(* other listeners append between two of them.                                *)
C38_RequestsInActionOrder ==
    /\ []((BlockActionHandled /\ handled.rpush # <<>>) =>
              (CallsInActionOrder /\ AppendedInOrder))
    /\ [][CallsInTurn]_vars

\* the two requests of a block action, for different buttons, with the
\* request of a slash command appended between them
C38_Witness ==
    /\ BlockActionHandled
    /\ OneCallOfBatch
    /\ handled.call = 2
    /\ BatchCommands[1] # BatchCommands[2]
    /\ Len(PoppitList) = 3
    /\ PoppitList[1].commands = <<BatchCommands[1]>>
    /\ DOMAIN PoppitList[1].metadata = {"project", "thread_ts", "channel"}
    /\ DOMAIN PoppitList[2].metadata = {"project"}
    /\ PoppitList[3] = handled.rpush[1].value

----------------------------------------------------------------------------
(* Block actions without a message or a channel *)

\* message.ts and channel.id of the handled block action, "" when absent
ReceivedMessageTS ==
    IF "message" \in DOMAIN handled.payload.object
    THEN StringField(handled.payload.object["message"], "ts", "")
    ELSE ""

ReceivedChannelID ==
    IF "channel" \in DOMAIN handled.payload.object
    THEN StringField(handled.payload.object["channel"], "id", "")
    ELSE ""

\* the request's metadata has key k with the string v
MetadataIs(request, k, v) ==
    k \in DOMAIN request.metadata /\ request.metadata[k] = JString(v)

(* C39: a block action for a configured project sends one request per        *)
(* eligible action also when it has no message.ts or no channel.id; the       *)
(* request's metadata then has thread_ts, respectively channel, equal to the  *)
(* empty string.  The result of a request whose metadata channel is the empty *)
(* string is posted to the configured channel, and the result of a request    *)
(* whose metadata thread_ts is the empty string is posted without thread_ts.  *)
C39_MissingOriginStillDispatches ==
    /\ \A name \in DOMAIN Projects :
           (BlockActionHandled /\ SelectionIs(name)) =>
               /\ Len(handled.rpush) = Len(EligibleActions)
               /\ \A k \in 1..Len(handled.rpush) :
                      /\ handled.rpush[k].key = PoppitListName
                      /\ handled.rpush[k].value.commands = <<BatchCommands[k]>>
                      /\ MetadataIs(handled.rpush[k].value, "thread_ts",
                                    ReceivedMessageTS)
                      /\ MetadataIs(handled.rpush[k].value, "channel",
                                    ReceivedChannelID)
    /\ \A i \in 1..Len(PoppitListBefore) :
           ResultOfRequest(i) =>
               /\ PostedToSlackLiner
               /\ MetadataIs(PoppitListBefore[i], "channel", "") =>
                      Posted.channel = SlackChannel
               /\ MetadataIs(PoppitListBefore[i], "thread_ts", "") =>
                      "thread_ts" \notin DOMAIN Posted

\* a button pressed without message and channel: its request has both
\* metadata strings empty, and its result is stored as a top-level message of
\* the configured channel
C39_Witness ==
    /\ ResultOfRequest(1)
    /\ MetadataIs(PoppitListBefore[1], "channel", "")
    /\ MetadataIs(PoppitListBefore[1], "thread_ts", "")
    /\ SlackLinerList = Append(SlackLinerListBefore, Posted)
    /\ Posted.channel = SlackChannel
    /\ "thread_ts" \notin DOMAIN Posted

============================================================================
